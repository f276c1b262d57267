---------------------- MODULE FilesystemVerifierProofs ----------------------
(***************************************************************************)
(* Proofs about FilesystemVerifier, for all volumes and any number of      *)
(* workers: whom the interruption of pending I/O can reach, and when; that *)
(* the failures that are reported are the volumes' own; that an inventory  *)
(* lacks nothing but what an unreadable directory hides; that a comparison *)
(* is complete only when every task is reported; and from these that what  *)
(* is reported is real and what is verified is equal.                      *)
(***************************************************************************)
EXTENDS FilesystemVerifier, FiniteSetTheorems, WellFoundedInduction, TLAPS

-----------------------------------------------------------------------------
(* The inductive invariant.                                                *)

\* The thread of VerifyVolume is registered only while it attaches a disk.
RegistrationInv == Job \in registered => job \in Attaching

\* Only calls of registered threads are interrupted, and only after the event.
InterruptionInv ==
    /\ aborted \subseteq registered
    /\ ~cancellation_event => aborted = {}

IInv == RegistrationInv /\ InterruptionInv

-----------------------------------------------------------------------------

\* The threads of the workers are not the one of VerifyVolume.
LEMMA WorkersAreNotTheJob ==
    /\ \A e \in Endpoints : \A w : <<e, w>> # Job
    /\ \A w : Thread(w) # Job
<1>1. ASSUME NEW e \in Endpoints, NEW w PROVE <<e, w>> # Job
  <2>1. <<e, w>>[1] = e
    OBVIOUS
  <2>2. Job[1] = "job"
    BY DEF Job
  <2> QED BY <2>1, <2>2 DEF Endpoints
<1>2. ASSUME NEW w PROVE Thread(w) # Job
  <2>1. Thread(w)[1] = "comparison"
    BY DEF Thread
  <2>2. Job[1] = "job"
    BY DEF Job
  <2> QED BY <2>1, <2>2
<1> QED BY <1>1, <1>2

\* Init establishes the invariant.
LEMMA InitIInv == Init => IInv
BY DEF Init, TraversalInit, IInv, RegistrationInv, InterruptionInv

\* The steps of VerifyVolume and of the caller.
LEMMA JobStepIInv ==
    IInv /\ (JobProgress \/ AttachReturns) => IInv'
<1> SUFFICES ASSUME IInv, JobProgress \/ AttachReturns PROVE IInv'
    OBVIOUS
<1> USE DEF IInv, RegistrationInv, InterruptionInv, Attaching
<1>1. CASE BeginJob
  BY <1>1 DEF BeginJob, JobStep
<1>2. CASE Attach
  BY <1>2 DEF Attach, Unregister
<1>3. CASE AttachReal
  BY <1>3 DEF AttachReal, JobStep
<1>4. CASE AttachThrows
  BY <1>4 DEF AttachThrows, Unregister, Unwind
<1>5. CASE PreparationThrows
  BY <1>5 DEF PreparationThrows, Unregister
<1>6. CASE CleanupFailedAttachment
  BY <1>6 DEF CleanupFailedAttachment, JobStep, Unwind
<1>7. CASE Detach
  BY <1>7 DEF Detach, traversalVars, ioVars
<1>8. CASE StartTraversal
  BY <1>8 DEF StartTraversal, JobStep, traversalVars, ioVars
<1>9. CASE Traversed
  BY <1>9 DEF Traversed, traversalVars, ioVars
<1>10. CASE BuildComparisonPlan
  BY <1>10 DEF BuildComparisonPlan, JobStep, traversalVars, ioVars
<1>11. CASE BuildComparisonPlanCancelled
  BY <1>11 DEF BuildComparisonPlanCancelled, JobStep, traversalVars, ioVars
<1>12. CASE StartComparison
  BY <1>12 DEF StartComparison, JobStep, traversalVars, ioVars
<1>13. CASE StartComparisonFails
  BY <1>13 DEF StartComparisonFails, JobStep, traversalVars, ioVars
<1>14. CASE Compared
  BY <1>14 DEF Compared, JobStep, traversalVars, ioVars
<1>15. CASE PrintFinalResults
  BY <1>15 DEF PrintFinalResults, JobStep, traversalVars, ioVars
<1>16. CASE \E e \in Endpoints : RunTraversal(e)
  BY <1>16 DEF RunTraversal, Run, ioVars
<1> QED
  BY <1>1, <1>2, <1>3, <1>4, <1>5, <1>6, <1>7, <1>8,
     <1>9, <1>10, <1>11, <1>12, <1>13, <1>14, <1>15, <1>16
  DEF JobProgress, AttachReturns

\* A step of a traversal's worker, which registers or unregisters itself.
LEMMA TraverserStepIInv ==
    ASSUME IInv, NEW e \in Endpoints, NEW w,
           Take(e, w) \/ TraverserIo(e, w) \/ WorkerThrows(e, w),
           UNCHANGED OfTraversal
    PROVE  IInv'
<1> USE DEF IInv, RegistrationInv, InterruptionInv, OfTraversal
<1>1. <<e, w>> # Job
  BY WorkersAreNotTheJob
<1>2. CASE WorkerReturns(e, w)
  BY <1>1, <1>2 DEF WorkerReturns, Unregister
<1>3. CASE Take(e, w) /\ ~WorkerReturns(e, w)
  BY <1>1, <1>3 DEF Take
<1>4. CASE TraverserIo(e, w) /\ ~WorkerReturns(e, w)
  <2>1. UNCHANGED <<registered, aborted, cancellation_event>>
    BY <1>4 DEF TraverserIo, OpenReturns, StreamsReturn, ListReturns, ioVars
  <2> QED BY <2>1
<1>5. CASE WorkerThrows(e, w)
  BY <1>1, <1>5 DEF WorkerThrows, Unregister
<1> QED BY <1>2, <1>3, <1>4, <1>5

\* A step of a comparison worker.
LEMMA ComparerStepIInv ==
    ASSUME IInv, NEW w,
           ComparerProgress(w) \/ ComparerIoReturns(w) \/ ComparerThrows(w)
    PROVE  IInv'
<1> USE DEF IInv, RegistrationInv, InterruptionInv
<1>1. Thread(w) # Job
  BY WorkersAreNotTheJob
<1>2. CASE ComparerReturns(w)
  BY <1>1, <1>2 DEF ComparerReturns, Unregister
<1>3. CASE RegisterComparer(w)
  BY <1>1, <1>3 DEF RegisterComparer
<1>4. CASE ComparerThrows(w)
  BY <1>4 DEF ComparerThrows, traversalVars, ioVars
<1>5. CASE NextTask(w) /\ ~ComparerReturns(w)
  BY <1>5 DEF NextTask, ComparerUnchanged, traversalVars, ioVars
<1>6. CASE ComparerIoReturns(w) /\ ~ComparerReturns(w)
  BY <1>6 DEF ComparerIoReturns, OpenStreamReturns, ReadReturns, CompareChunk,
              ComparerUnchanged, traversalVars, ioVars
<1> QED BY <1>2, <1>3, <1>4, <1>5, <1>6 DEF ComparerProgress

\* Every step preserves the invariant.
LEMMA NextIInv == IInv /\ [Next]_vars => IInv'
<1> SUFFICES ASSUME IInv, [Next]_vars PROVE IInv'
    OBVIOUS
<1>1. CASE JobProgress \/ AttachReturns
  BY <1>1, JobStepIInv
<1>2. ASSUME NEW e \in Endpoints, TraverserProgress(e) PROVE IInv'
  <2>1. CASE RunReturns(e)
    BY <1>2, <2>1 DEF TraverserProgress, RunReturns, ioVars, OfTraversal, IInv,
                      RegistrationInv, InterruptionInv
  <2>2. ASSUME NEW w \in Workers[e], Take(e, w) PROVE IInv'
    BY <1>2, <2>2, TraverserStepIInv DEF TraverserProgress
  <2> QED BY <1>2, <2>1, <2>2 DEF TraverserProgress, TraverserStep
<1>3. ASSUME NEW e \in Endpoints, NEW w \in Workers[e],
             TraverserIoReturns(e, w) \/ TraverserFails(e, w)
      PROVE  IInv'
  BY <1>3, TraverserStepIInv DEF TraverserIoReturns, TraverserFails
<1>4. ASSUME NEW w \in ComparisonWorkers,
             ComparerProgress(w) \/ ComparerIoReturns(w) \/ ComparerThrows(w)
      PROVE  IInv'
  BY <1>4, ComparerStepIInv
<1>5. CASE RequestCancellation
  BY <1>5 DEF RequestCancellation, ioVars, IInv, RegistrationInv,
              InterruptionInv
<1>6. CASE CancelPending
  BY <1>6 DEF CancelPending, Pending, IInv, RegistrationInv, InterruptionInv
<1>7. CASE Terminated \/ UNCHANGED vars
  BY <1>7 DEF Terminated, vars, traversalVars, ioVars, IInv, RegistrationInv,
              InterruptionInv
<1> QED BY <1>1, <1>2, <1>3, <1>4, <1>5, <1>6, <1>7 DEF Next

\* The invariant holds throughout.
LEMMA IInvInvariant == Spec => []IInv
BY InitIInv, NextIInv, PTL DEF Spec

\* Whatever volumes, workers and moments of cancellation: the interruption of
\* pending I/O never hits VerifyVolume while it detaches a disk, be it the one
\* whose preparation failed or one that was in use.
THEOREM DetachmentsAreSafe == Spec => []DetachIsNotInterrupted
<1>1. IInv => DetachIsNotInterrupted
  BY DEF IInv, RegistrationInv, InterruptionInv, DetachIsNotInterrupted,
         Attaching
<1> QED BY <1>1, IInvInvariant, PTL

-----------------------------------------------------------------------------
(* Whose failures are reported.                                            *)

\* Every failure that is reported of a volume is the volume's own answer to
\* that call on that path.
ReportedFailuresAreOwn ==
    \A c \in operation_comparisons :
        /\ c.synthetic \subseteq OwnFailure("synthetic", c.path, c.operation)
        /\ c.real \subseteq OwnFailure("real", c.path, c.operation)

\* The inventories are records of three sets ...
InventoryShape ==
    inventory = [e \in Endpoints |->
                   [objects |-> inventory[e].objects,
                    issues |-> inventory[e].issues,
                    incomplete_directories |->
                        inventory[e].incomplete_directories]]

\* ... whose issues are the volume's own failures.
IssuesInv ==
    \A e \in Endpoints : \A i \in inventory[e].issues :
        i.failure \in OwnFailure(e, i.path, i.operation)

OwnInv == InventoryShape /\ IssuesInv /\ ReportedFailuresAreOwn

\* What a volume answers does not depend on anything but the volume.
LEMMA OwnFailureIs ==
    ASSUME NEW e, NEW p
    PROVE  /\ OwnFailure(e, p, "OpenObject") = Failure(fs[e][p].open)
           /\ OwnFailure(e, p, "QueryStreams") = Failure(fs[e][p].query)
           /\ OwnFailure(e, p, "QueryDirectory") = Failure(fs[e][p].list)
           /\ OwnFailure(e, p, "OpenStream") = Failure(fs[e][p].reopen)
           /\ OwnFailure(e, p, "ReadStream") = Failure(fs[e][p].read)
BY DEF OwnFailure

\* So it is the same after any step.
LEMMA OwnFailureUnchanged ==
    ASSUME UNCHANGED fs, NEW e, NEW p, NEW operation
    PROVE  OwnFailure(e, p, operation)' = OwnFailure(e, p, operation)
BY DEF OwnFailure, Failure

\* Without cancellation a call returns the volume's answer.
LEMMA UninterruptedResult ==
    ASSUME IInv, ~cancellation_event, NEW t, NEW result,
           NEW error \in IoResults(t, result)
    PROVE  error = result
BY DEF IInv, InterruptionInv, IoResults

\* Init establishes it.
LEMMA InitOwnInv == Init => OwnInv
BY DEF Init, TraversalInit, OwnInv, InventoryShape, IssuesInv,
       ReportedFailuresAreOwn

\* Commit adds its issues and keeps the rest.
LEMMA CommitIssues ==
    ASSUME InventoryShape, NEW e \in Endpoints, NEW p, NEW issues,
           NEW incomplete, Commit(e, p, issues, incomplete)
    PROVE  /\ InventoryShape'
           /\ inventory'[e].issues = inventory[e].issues \cup issues
           /\ \A x \in Endpoints \ {e} : inventory'[x] = inventory[x]
<1>1. DOMAIN inventory = Endpoints
  BY DEF InventoryShape
<1>2. inventory[e] = [objects |-> inventory[e].objects,
                      issues |-> inventory[e].issues,
                      incomplete_directories |->
                          inventory[e].incomplete_directories]
  BY DEF InventoryShape
<1>3. inventory'[e] = [objects |-> inventory[e].objects \cup {p},
                       issues |-> inventory[e].issues \cup issues,
                       incomplete_directories |->
                           inventory[e].incomplete_directories \cup incomplete]
  BY <1>1, <1>2 DEF Commit
<1>4. \A x \in Endpoints \ {e} : inventory'[x] = inventory[x]
  BY <1>1 DEF Commit
<1>5. InventoryShape'
  <2>1. inventory' = [x \in Endpoints |-> inventory'[x]]
    BY <1>1 DEF Commit
  <2>2. \A x \in Endpoints :
           inventory'[x] = [objects |-> inventory'[x].objects,
                            issues |-> inventory'[x].issues,
                            incomplete_directories |->
                                inventory'[x].incomplete_directories]
    BY <1>3, <1>4 DEF InventoryShape
  <2> QED BY <2>1, <2>2 DEF InventoryShape
<1> QED BY <1>3, <1>4, <1>5

\* A commitment whose issues are the volume's own preserves the invariant.
LEMMA CommitOwn ==
    ASSUME OwnInv, NEW e \in Endpoints, NEW p, NEW issues, NEW incomplete,
           Commit(e, p, issues, incomplete), UNCHANGED fs,
           UNCHANGED operation_comparisons,
           \A i \in issues : i.failure \in OwnFailure(e, i.path, i.operation)
    PROVE  OwnInv'
<1>1. InventoryShape'
  BY CommitIssues DEF OwnInv
<1>2. IssuesInv'
  <2> SUFFICES ASSUME NEW x \in Endpoints, NEW i \in inventory'[x].issues
               PROVE  i.failure \in OwnFailure(x, i.path, i.operation)'
    BY DEF IssuesInv
  <2>1. OwnFailure(x, i.path, i.operation)'
           = OwnFailure(x, i.path, i.operation)
    BY OwnFailureUnchanged
  <2>2. i.failure \in OwnFailure(x, i.path, i.operation)
    BY CommitIssues DEF OwnInv, IssuesInv
  <2> QED BY <2>1, <2>2
<1>3. ReportedFailuresAreOwn'
  BY OwnFailureUnchanged DEF OwnInv, ReportedFailuresAreOwn
<1> QED BY <1>1, <1>2, <1>3 DEF OwnInv

\* So does a step that commits and reports nothing.
LEMMA OwnInvUnchanged ==
    ASSUME OwnInv, UNCHANGED <<fs, inventory, operation_comparisons>>
    PROVE  OwnInv'
BY OwnFailureUnchanged DEF OwnInv, InventoryShape, IssuesInv,
                           ReportedFailuresAreOwn

\* And one that reports an answer of each volume.
LEMMA RecordOwn ==
    ASSUME OwnInv, UNCHANGED <<fs, inventory>>, NEW more,
           operation_comparisons' = operation_comparisons \cup more,
           \A c \in more :
              /\ c.synthetic \subseteq
                    OwnFailure("synthetic", c.path, c.operation)
              /\ c.real \subseteq OwnFailure("real", c.path, c.operation)
    PROVE  OwnInv'
<1>1. InventoryShape' /\ IssuesInv'
  BY OwnFailureUnchanged DEF OwnInv, InventoryShape, IssuesInv
<1>2. ReportedFailuresAreOwn'
  BY OwnFailureUnchanged DEF OwnInv, ReportedFailuresAreOwn
<1> QED BY <1>1, <1>2 DEF OwnInv

\* The failures that BuildComparisonPlan compares are the issues' ones.
LEMMA PlanOwn ==
    ASSUME OwnInv, NEW c \in InventoryComparisons
    PROVE  /\ c.synthetic \subseteq
                 OwnFailure("synthetic", c.path, c.operation)
           /\ c.real \subseteq OwnFailure("real", c.path, c.operation)
<1>1. PICK p \in InBoth,
           operation \in {"OpenObject", "QueryStreams", "QueryDirectory"} :
              c = OperationComparison(p, 0, operation,
                                      FailureOf("synthetic", p, operation),
                                      FailureOf("real", p, operation))
  BY DEF InventoryComparisons
<1>2. ASSUME NEW e \in Endpoints
      PROVE  FailureOf(e, p, operation) \subseteq OwnFailure(e, p, operation)
  BY DEF FailureOf, OwnInv, IssuesInv
<1>3. /\ c.path = p
      /\ c.operation = operation
      /\ c.synthetic = FailureOf("synthetic", p, operation)
      /\ c.real = FailureOf("real", p, operation)
  BY <1>1 DEF OperationComparison
<1> QED BY <1>2, <1>3 DEF Endpoints

\* The steps of VerifyVolume.
LEMMA JobStepOwn ==
    ASSUME OwnInv, JobProgress \/ AttachReturns
    PROVE  OwnInv'
<1>1. CASE BeginJob
  BY <1>1, OwnInvUnchanged DEF BeginJob, traverserVars, stateVars
<1>2. CASE Attach
  BY <1>2, OwnInvUnchanged DEF Attach, traverserVars, stateVars
<1>3. CASE AttachReal
  BY <1>3, OwnInvUnchanged DEF AttachReal, traverserVars, stateVars
<1>4. CASE AttachThrows
  BY <1>4, OwnInvUnchanged DEF AttachThrows, traverserVars
<1>5. CASE PreparationThrows
  BY <1>5, OwnInvUnchanged DEF PreparationThrows, traverserVars
<1>6. CASE CleanupFailedAttachment
  BY <1>6, OwnInvUnchanged
     DEF CleanupFailedAttachment, traverserVars, stateVars
<1>7. CASE Detach
  BY <1>7, OwnInvUnchanged DEF Detach, traversalVars, traverserVars
<1>8. CASE StartTraversal
  BY <1>8, OwnInvUnchanged
     DEF StartTraversal, traversalVars, traverserVars, stateVars
<1>9. CASE Traversed
  BY <1>9, OwnInvUnchanged DEF Traversed, traversalVars, traverserVars
<1>10. CASE StartComparison
  BY <1>10, OwnInvUnchanged
     DEF StartComparison, traversalVars, traverserVars, stateVars
<1>11. CASE StartComparisonFails
  BY <1>11, OwnInvUnchanged
     DEF StartComparisonFails, traversalVars, traverserVars
<1>12. CASE Compared
  BY <1>12, OwnInvUnchanged DEF Compared, traversalVars, traverserVars
<1>13. CASE PrintFinalResults
  BY <1>13, OwnInvUnchanged
     DEF PrintFinalResults, traversalVars, traverserVars, stateVars
<1>14. CASE BuildComparisonPlan \/ BuildComparisonPlanCancelled
  <2>1. UNCHANGED <<fs, inventory>>
    BY <1>14 DEF BuildComparisonPlan, BuildComparisonPlanCancelled,
                traversalVars, traverserVars
  <2>2. operation_comparisons' \subseteq InventoryComparisons
    BY <1>14 DEF BuildComparisonPlan, BuildComparisonPlanCancelled, PlanRecords
  <2>3. ReportedFailuresAreOwn'
    BY <2>1, <2>2, PlanOwn, OwnFailureUnchanged DEF ReportedFailuresAreOwn
  <2>4. InventoryShape' /\ IssuesInv'
    BY <2>1, OwnFailureUnchanged DEF OwnInv, InventoryShape, IssuesInv
  <2> QED BY <2>3, <2>4 DEF OwnInv
<1>15. CASE \E e \in Endpoints : RunTraversal(e)
  BY <1>15, OwnInvUnchanged DEF RunTraversal, Run, stateVars
<1> QED
  BY <1>1, <1>2, <1>3, <1>4, <1>5, <1>6, <1>7, <1>8,
     <1>9, <1>10, <1>11, <1>12, <1>13, <1>14, <1>15
     DEF JobProgress, AttachReturns

\* A step of a traversal's worker commits what its volume answered.
LEMMA TraverserStepOwn ==
    ASSUME IInv, OwnInv, NEW e \in Endpoints, NEW w,
           Take(e, w) \/ TraverserIo(e, w) \/ WorkerThrows(e, w),
           UNCHANGED OfTraversal
    PROVE  OwnInv'
<1> DEFINE p == worker[e][w].path
<1>0. UNCHANGED <<fs, operation_comparisons>>
  BY DEF Take, TraverserIo, OpenReturns, StreamsReturn, ListReturns,
         WorkerThrows, WorkerReturns, OfTraversal, stateVars
<1>1. CASE UNCHANGED inventory
  BY <1>0, <1>1, OwnInvUnchanged
<1>2. CASE Take(e, w) \/ WorkerThrows(e, w) \/ WorkerReturns(e, w)
  BY <1>1, <1>2 DEF Take, WorkerThrows, WorkerReturns
<1>3. ASSUME NEW operation, NEW own, NEW error \in IoResults(<<e, w>>, own),
             ~cancellation_event, error # "none",
             OwnFailure(e, p, operation) = Failure(own),
             NEW incomplete,
             Commit(e, p, {Issue(p, operation, error)}, incomplete)
      PROVE  OwnInv'
  <2>1. error = own
    BY <1>3, UninterruptedResult
  <2>2. error \in OwnFailure(e, p, operation)
    BY <1>3, <2>1 DEF Failure
  <2>3. \A i \in {Issue(p, operation, error)} :
           i.failure \in OwnFailure(e, i.path, i.operation)
    BY <2>2 DEF Issue
  <2> QED BY <1>0, <1>3, <2>3, CommitOwn
<1>4. ASSUME NEW incomplete, Commit(e, p, {}, incomplete) PROVE OwnInv'
  BY <1>0, <1>4, CommitOwn
<1>5. CASE OpenReturns(e, w) /\ ~WorkerReturns(e, w)
  <2>1. PICK error \in IoResults(<<e, w>>, fs[e][p].open) :
           /\ ~cancellation_event
           /\ \/ /\ error # "none"
                 /\ Commit(e, p, {Issue(p, "OpenObject", error)},
                           IF IsDirectory(e, p) THEN {p} ELSE {})
              \/ Commit(e, p, {}, {})
              \/ UNCHANGED inventory
    BY <1>5 DEF OpenReturns
  <2>2. OwnFailure(e, p, "OpenObject") = Failure(fs[e][p].open)
    BY OwnFailureIs
  <2> QED BY <1>1, <1>3, <1>4, <2>1, <2>2
<1>6. CASE StreamsReturn(e, w) /\ ~WorkerReturns(e, w)
  <2>1. PICK error \in IoResults(<<e, w>>, fs[e][p].query) :
           /\ ~cancellation_event
           /\ Commit(e, p, IF error = "none" THEN {}
                           ELSE {Issue(p, "QueryStreams", error)}, {})
    BY <1>6 DEF StreamsReturn
  <2>2. OwnFailure(e, p, "QueryStreams") = Failure(fs[e][p].query)
    BY OwnFailureIs
  <2>3. CASE error = "none"
    BY <1>4, <2>1, <2>3
  <2>4. CASE error # "none"
    BY <1>3, <2>1, <2>2, <2>4
  <2> QED BY <2>3, <2>4
<1>7. CASE ListReturns(e, w) /\ ~WorkerReturns(e, w)
  <2>1. \/ UNCHANGED inventory
        \/ /\ ~cancellation_event
           /\ \E error \in IoResults(<<e, w>>, fs[e][p].list) \ {"none"} :
                 Commit(e, p, {Issue(p, "QueryDirectory", error)}, {p})
    BY <1>7 DEF ListReturns
  <2>2. OwnFailure(e, p, "QueryDirectory") = Failure(fs[e][p].list)
    BY OwnFailureIs
  <2>3. ASSUME ~cancellation_event,
               NEW error \in IoResults(<<e, w>>, fs[e][p].list) \ {"none"},
               Commit(e, p, {Issue(p, "QueryDirectory", error)}, {p})
        PROVE  OwnInv'
    BY <1>3, <2>2, <2>3
  <2> QED BY <1>1, <2>1, <2>3
<1> QED BY <1>2, <1>5, <1>6, <1>7 DEF TraverserIo

\* A step of a comparison worker reports what the two volumes answered.
LEMMA ComparerStepOwn ==
    ASSUME IInv, OwnInv, NEW w,
           ComparerProgress(w) \/ ComparerIoReturns(w) \/ ComparerThrows(w)
    PROVE  OwnInv'
<1>1. CASE ComparerReturns(w) \/ ComparerThrows(w) \/ RegisterComparer(w)
  BY <1>1, OwnInvUnchanged DEF ComparerReturns, ComparerThrows,
        RegisterComparer, traversalVars, traverserVars, stateVars
<1>2. CASE NextTask(w) /\ ~ComparerReturns(w)
  BY <1>2, OwnInvUnchanged DEF NextTask, ComparerUnchanged, traversalVars,
        traverserVars
<1>3. ASSUME NEW operation, NEW s, NEW r,
             OwnFailure("synthetic", Task(w).path, operation) = Failure(s),
             OwnFailure("real", Task(w).path, operation) = Failure(r),
             RecordOperation(w, operation, s, r), UNCHANGED <<fs, inventory>>
      PROVE  OwnInv'
  <2> DEFINE more == {OperationComparison(Task(w).path, Task(w).stream,
                                          operation, Failure(s), Failure(r))}
  <2>1. operation_comparisons' = operation_comparisons \cup more
    BY <1>3 DEF RecordOperation
  <2>2. \A c \in more :
           /\ c.synthetic \subseteq
                 OwnFailure("synthetic", c.path, c.operation)
           /\ c.real \subseteq OwnFailure("real", c.path, c.operation)
    BY <1>3 DEF OperationComparison
  <2>3. UNCHANGED <<fs, inventory>>
    BY <1>3
  <2> HIDE DEF more
  <2> QED BY <2>1, <2>2, <2>3, RecordOwn
<1>4. CASE OpenStreamReturns(w) /\ ~ComparerReturns(w)
  <2>1. PICK s \in IoResults(Thread(w), fs["synthetic"][Task(w).path].reopen),
             r \in IoResults(Thread(w), fs["real"][Task(w).path].reopen) :
           /\ ~cancellation_event
           /\ \/ UNCHANGED operation_comparisons
              \/ RecordOperation(w, "OpenStream", s, r)
           /\ UNCHANGED <<fs, inventory>>
    BY <1>4 DEF OpenStreamReturns, ComparerUnchanged, traversalVars,
                traverserVars
  <2>2. /\ s = fs["synthetic"][Task(w).path].reopen
        /\ r = fs["real"][Task(w).path].reopen
    BY <2>1, UninterruptedResult
  <2> QED BY <1>3, <2>1, <2>2, OwnFailureIs, OwnInvUnchanged
<1>5. CASE ReadReturns(w) /\ ~ComparerReturns(w)
  <2>1. PICK s \in IoResults(Thread(w), fs["synthetic"][Task(w).path].read),
             r \in IoResults(Thread(w), fs["real"][Task(w).path].read) :
           /\ ~cancellation_event
           /\ \/ UNCHANGED operation_comparisons
              \/ RecordOperation(w, "ReadStream", s, r)
           /\ UNCHANGED <<fs, inventory>>
    BY <1>5 DEF ReadReturns, CompareChunk, ComparerUnchanged, traversalVars,
                traverserVars
  <2>2. /\ s = fs["synthetic"][Task(w).path].read
        /\ r = fs["real"][Task(w).path].read
    BY <2>1, UninterruptedResult
  <2> QED BY <1>3, <2>1, <2>2, OwnFailureIs, OwnInvUnchanged
<1> QED BY <1>1, <1>2, <1>4, <1>5 DEF ComparerProgress, ComparerIoReturns

\* Every step preserves the invariant.
LEMMA NextOwn == IInv /\ OwnInv /\ [Next]_vars => OwnInv'
<1> SUFFICES ASSUME IInv, OwnInv, [Next]_vars PROVE OwnInv'
    OBVIOUS
<1>1. CASE JobProgress \/ AttachReturns
  BY <1>1, JobStepOwn
<1>2. ASSUME NEW e \in Endpoints, TraverserProgress(e) PROVE OwnInv'
  <2>1. CASE RunReturns(e)
    BY <1>2, <2>1, OwnInvUnchanged DEF TraverserProgress, RunReturns,
          OfTraversal, stateVars
  <2>2. ASSUME NEW w \in Workers[e], Take(e, w) PROVE OwnInv'
    BY <1>2, <2>2, TraverserStepOwn DEF TraverserProgress
  <2> QED BY <1>2, <2>1, <2>2 DEF TraverserProgress, TraverserStep
<1>3. ASSUME NEW e \in Endpoints, NEW w \in Workers[e],
             TraverserIoReturns(e, w) \/ TraverserFails(e, w)
      PROVE  OwnInv'
  BY <1>3, TraverserStepOwn DEF TraverserIoReturns, TraverserFails
<1>4. ASSUME NEW w \in ComparisonWorkers,
             ComparerProgress(w) \/ ComparerIoReturns(w) \/ ComparerThrows(w)
      PROVE  OwnInv'
  BY <1>4, ComparerStepOwn
<1>5. CASE RequestCancellation \/ CancelPending
  BY <1>5, OwnInvUnchanged DEF RequestCancellation, CancelPending,
        traverserVars, stateVars
<1>6. CASE Terminated \/ UNCHANGED vars
  BY <1>6, OwnInvUnchanged DEF Terminated, vars, traversalVars, traverserVars,
        stateVars
<1> QED BY <1>1, <1>2, <1>3, <1>4, <1>5, <1>6 DEF Next

\* A failure is reported of a volume only if the volume itself gave it: the
\* tests of the event after every call keep the interruptions by the verifier,
\* which may end any call of any worker, out of inventories and comparisons.
THEOREM NoFailureIsTheVerifiers == Spec => []ReportedFailuresAreOwn
<1>1. Spec => []OwnInv
  BY InitOwnInv, NextOwn, IInvInvariant, PTL DEF Spec
<1>2. OwnInv => ReportedFailuresAreOwn
  BY DEF OwnInv
<1> QED BY <1>1, <1>2, PTL

-----------------------------------------------------------------------------
(* The traversals: every path is reached.                                  *)

Objects(e) == inventory[e].objects
Incomplete(e) == inventory[e].incomplete_directories

\* The volumes are two of Volumes, and the variables are functions.
ShapeInv ==
    /\ fs \in Volumes
    /\ pending_ = [e \in Endpoints |-> pending_[e]]
    /\ active_ = [e \in Endpoints |-> active_[e]]
    /\ failure_ = [e \in Endpoints |-> failure_[e]]
    /\ run = [e \in Endpoints |-> run[e]]
    /\ worker = [e \in Endpoints |-> worker[e]]

\* A worker: where it is, its task and the entries it has not yet been given.
WorkerStates(e) ==
    [pc : {"unborn", "start", "take", "open", "streams", "list", "done"},
     path : DOMAIN fs[e], entries : SUBSET (DOMAIN fs[e] \ {Root})]

TraverserType(e) ==
    /\ worker[e] \in [Workers[e] -> WorkerStates(e)]
    /\ pending_[e] \in Seq(DOMAIN fs[e])
    /\ active_[e] \in Int
    /\ Objects(e) \subseteq DOMAIN fs[e]

\* Whoever is in a call to the file system.
Busy(e) == {w \in Workers[e] : worker[e][w].pc \in InIo}

\* The task q is queued, taken or committed.
Reached(e, q) ==
    \/ q \in Objects(e)
    \/ q \in ToSet(pending_[e])
    \/ \E w \in Workers[e] :
          worker[e][w].pc \in {"open", "streams"} /\ worker[e][w].path = q

\* A worker is to be given the entry q of directory p, or is listing p.
ToBeListed(e, p, q) ==
    \E w \in Workers[e] : /\ worker[e][w].pc = "list"
                          /\ worker[e][w].path = p
                          /\ q \in worker[e][w].entries

Listing(e, p) ==
    \E w \in Workers[e] : worker[e][w].pc = "list" /\ worker[e][w].path = p

Reported(e, p, operation) ==
    \E i \in inventory[e].issues : i.path = p /\ i.operation = operation

\* p is committed with the failures of the calls that were made on it.
Issues(e, p) ==
    /\ fs[e][p].open # "none" => Reported(e, p, "OpenObject")
    /\ fs[e][p].open = "none" /\ fs[e][p].query # "none" =>
          Reported(e, p, "QueryStreams")

Unlisted(e, p) ==
    fs[e][p].open = "none" /\ IsDirectory(e, p) /\ fs[e][p].list # "none"

Children(e) == DOMAIN fs[e] \ {Root}

\* While a traversal runs that nothing has stopped: active_ counts the workers
\* that have a task; a worker is done only when there are no tasks left; and
\* an entry of a committed directory is on its way, or the directory is known
\* to be incomplete.
CountInv(e) == active_[e] = Cardinality(Busy(e))

DoneInv(e) ==
    (\E w \in Workers[e] : worker[e][w].pc = "done") =>
        pending_[e] = <<>> /\ Busy(e) = {}

CoverInv(e) ==
    /\ Reached(e, Root)
    /\ \A q \in Children(e) :
          Parent[q] \in Objects(e) =>
              \/ Reached(e, q)
              \/ ToBeListed(e, Parent[q], q)
              \/ Parent[q] \in Incomplete(e)
    /\ \A p \in Objects(e) :
          Unlisted(e, p) => Reported(e, p, "QueryDirectory") \/ Listing(e, p)

RunningInv(e) ==
    run[e] = "running" /\ ~cancellation_event /\ ~failure_[e] =>
        CountInv(e) /\ DoneInv(e) /\ CoverInv(e)

\* Before it the traverser is as it was made; an inventory has every entry of
\* its directories but those of the incomplete ones.
IdleInv(e) ==
    run[e] = "idle" =>
        /\ \A w \in Workers[e] : worker[e][w].pc = "unborn"
        /\ active_[e] = 0
        /\ Objects(e) = {}

Inventory(e) ==
    /\ \A w \in Workers[e] : worker[e][w].pc = "done"
    /\ Root \in Objects(e)
    /\ \A q \in Children(e) :
          Parent[q] \in Objects(e) =>
              q \in Objects(e) \/ Parent[q] \in Incomplete(e)
    /\ \A p \in Objects(e) :
          Unlisted(e, p) => Reported(e, p, "QueryDirectory")

InventoryInv(e) == run[e] = "inventory" => Inventory(e)

IssuesComplete(e) ==
    /\ \A p \in Objects(e) : Issues(e, p)
    /\ \A w \in Workers[e] :
          LET p == worker[e][w].path
          IN  /\ worker[e][w].pc = "streams" => fs[e][p].open = "none"
              /\ worker[e][w].pc = "list" => p \in Objects(e)

TraverserInv(e) ==
    /\ TraverserType(e)
    /\ IdleInv(e)
    /\ RunningInv(e)
    /\ InventoryInv(e)
    /\ IssuesComplete(e)

TraversalInv == ShapeInv /\ \A e \in Endpoints : TraverserInv(e)

-----------------------------------------------------------------------------
(* Paths.                                                                  *)

\* A non-empty set of naturals has a least element.
LEMMA LeastNumber ==
    ASSUME NEW S \in SUBSET Nat, S # {}
    PROVE  \E x \in S : \A y \in S : x <= y
<1> DEFINE R == OpToRel(<, Nat)
<1>1. R = {ss \in Nat \X Nat : ss[1] < ss[2]}
  BY DEF OpToRel
<1>2. IsWellFoundedOn(R, Nat)
  BY NatLessThanWellFounded
<1> HIDE DEF R
<1>3. PICK x \in S : \A y \in S : ~(<<y, x>> \in R)
  BY <1>2, WFMin
<1>4. \A y \in S : x <= y
  <2> TAKE y \in S
  <2>1. <<y, x>> \in Nat \X Nat /\ <<y, x>>[1] = y /\ <<y, x>>[2] = x
    OBVIOUS
  <2>2. ~(<<y, x>>[1] < <<y, x>>[2])
    BY <1>1, <1>3, <2>1
  <2> QED BY <2>1, <2>2
<1> QED BY <1>4

Paths == DOMAIN Parent \cup {Root}

\* Paths are numbers, and the parent of a path is a smaller one.
LEMMA PathFacts ==
    /\ Paths \subseteq Nat
    /\ Root \in Paths
    /\ \A p \in Paths \ {Root} :
          /\ p \in DOMAIN Parent
          /\ Parent[p] \in Paths
          /\ Parent[p] < p
          /\ Parent[p] \in VssExcluded => p \in VssExcluded
BY PathAssumption DEF Paths, Root

\* The recursive definition of Ancestors defines a function: the directories
\* above p are the least set that is closed under Parent and has p's parent.
LEMMA AncestorsDefined ==
    Ancestors = [p \in Paths |->
                   IF p = Root THEN {}
                   ELSE {Parent[p]} \cup Ancestors[Parent[p]]]
<1> DEFINE Closed(S) == \A x \in S : x # Root => Parent[x] \in S
           Above(p, S) == Closed(S) /\ (p # Root => Parent[p] \in S)
           G == [p \in Paths |->
                   {d \in Paths :
                      \A S \in SUBSET Paths : Above(p, S) => d \in S}]
           F(g) == [p \in Paths |->
                      IF p = Root THEN {} ELSE {Parent[p]} \cup g[Parent[p]]]
<1>1. G[Root] = {}
  <2>1. {} \in SUBSET Paths /\ Above(Root, {})
    OBVIOUS
  <2> QED BY <2>1, PathFacts
<1>2. ASSUME NEW p \in Paths \ {Root}
      PROVE  G[p] = {Parent[p]} \cup G[Parent[p]]
  <2> DEFINE a == Parent[p]
  <2>0. a \in Paths
    BY PathFacts
  <2> HIDE DEF a
  <2>1. G[p] = {d \in Paths : \A S \in SUBSET Paths : Above(p, S) => d \in S}
    BY Zenon
  <2>2. G[a] = {d \in Paths : \A S \in SUBSET Paths : Above(a, S) => d \in S}
    BY <2>0, Zenon
  <2> HIDE DEF G
  <2>3. ASSUME NEW S \in SUBSET Paths, Above(p, S) PROVE Above(a, S) /\ a \in S
    BY <2>3 DEF a
  <2>4. {a} \cup G[a] \subseteq G[p]
    BY <2>0, <2>1, <2>2, <2>3
  <2> DEFINE T == {a} \cup G[a]
  <2>5. T \in SUBSET Paths
    BY <2>0, <2>2
  <2>6. Closed(T)
    <3> SUFFICES ASSUME NEW x \in T, x # Root PROVE Parent[x] \in G[a]
      OBVIOUS
    <3>1. Parent[x] \in Paths
      BY <2>5, PathFacts
    <3>2. ASSUME NEW S \in SUBSET Paths, Above(a, S) PROVE Parent[x] \in S
      <4>1. CASE x = a
        BY <3>2, <4>1
      <4>2. CASE x \in G[a]
        BY <2>2, <3>2, <4>2
      <4> QED BY <4>1, <4>2
    <3> QED BY <2>2, <3>1, <3>2
  <2>7. Above(p, T)
    BY <2>6 DEF a
  <2>8. G[p] \subseteq T
    BY <2>1, <2>5, <2>7
  <2> QED BY <2>4, <2>8 DEF a
<1>3. G = F(G)
  <2>1. \A p \in Paths : G[p] = F(G)[p]
    BY <1>1, <1>2
  <2> QED BY <2>1, Zenon
<1> HIDE DEF G
<1>4. \E g : g = F(g)
  BY <1>3
<1>5. Ancestors = CHOOSE g : g = F(g)
  BY DEF Ancestors, Paths
<1> QED BY <1>4, <1>5

\* What is in an excluded directory is excluded.
LEMMA ExcludedBelow ==
    ASSUME NEW p \in Paths, NEW d \in Ancestors[p], d \in VssExcluded
    PROVE  p \in VssExcluded
<1> DEFINE Bad == {q \in Paths : /\ q \notin VssExcluded
                                 /\ Ancestors[q] \cap VssExcluded # {}}
<1> SUFFICES ASSUME Bad # {} PROVE FALSE
  OBVIOUS
<1>1. Bad \in SUBSET Nat
  BY PathFacts
<1> HIDE DEF Bad
<1>2. PICK q \in Bad : \A y \in Bad : q <= y
  BY <1>1, LeastNumber
<1> USE DEF Bad
<1>3. q # Root /\ Ancestors[q] = {Parent[q]} \cup Ancestors[Parent[q]]
  BY AncestorsDefined
<1>4. Parent[q] \in Paths /\ Parent[q] < q /\ Parent[q] \notin VssExcluded
  BY <1>3, PathFacts
<1>5. Parent[q] \in Bad
  BY <1>3, <1>4
<1> QED BY <1>1, <1>2, <1>4, <1>5

\* What is assumed of the volumes, of the two that are compared.
LEMMA VolumeFacts ==
    ASSUME fs \in Volumes, NEW e \in Endpoints
    PROVE  /\ IsFiniteSet(DOMAIN fs[e])
           /\ Root \in DOMAIN fs[e]
           /\ DOMAIN fs[e] \subseteq Paths
           /\ \A q \in Children(e) :
                 /\ q \in Paths \ {Root}
                 /\ Parent[q] \in DOMAIN fs[e]
                 /\ IsDirectory(e, Parent[q])
           /\ \A p, q \in DOMAIN fs[e] :
                 /\ fs[e][p].identity # 0
                 /\ fs[e][p].identity = fs[e][q].identity
                 => fs[e][p] = fs[e][q]
BY TraversalAssumption DEF Paths, Children, IsDirectory

\* An inventory has every path of its volume, or knows of a directory above it
\* that could not be listed.
LEMMA InventoryIsComplete ==
    ASSUME fs \in Volumes, NEW e \in Endpoints, Inventory(e),
           NEW p \in DOMAIN fs[e]
    PROVE  p \in Objects(e) \/ IsBelowIncompleteDirectory(e, p)
<1> DEFINE Bad == {q \in DOMAIN fs[e] :
                     /\ q \notin Objects(e)
                     /\ ~IsBelowIncompleteDirectory(e, q)}
<1> SUFFICES ASSUME Bad # {} PROVE FALSE
  OBVIOUS
<1>1. Bad \in SUBSET Nat
  BY VolumeFacts, PathFacts
<1> HIDE DEF Bad
<1>2. PICK q \in Bad : \A y \in Bad : q <= y
  BY <1>1, LeastNumber
<1> USE DEF Bad
<1>3. q \in Children(e)
  BY DEF Inventory, Children
<1>4. /\ q \in Paths \ {Root}
      /\ Parent[q] \in DOMAIN fs[e]
  BY <1>3, VolumeFacts
<1>5. Parent[q] \in Paths /\ Parent[q] < q
  BY <1>4, PathFacts
<1>6. Ancestors[q] = {Parent[q]} \cup Ancestors[Parent[q]]
  BY <1>4, AncestorsDefined
<1>7. Parent[q] \notin Objects(e)
  BY <1>3, <1>6 DEF Inventory, IsBelowIncompleteDirectory, Incomplete
<1>8. ~IsBelowIncompleteDirectory(e, Parent[q])
  BY <1>6 DEF IsBelowIncompleteDirectory
<1>9. Parent[q] \in Bad
  BY <1>4, <1>7, <1>8
<1> QED BY <1>1, <1>2, <1>5, <1>9

\* If only excluded directories are incomplete then every other path is there.
LEMMA NothingElseIsMissing ==
    ASSUME fs \in Volumes, NEW e \in Endpoints, Inventory(e),
           Incomplete(e) \subseteq VssExcluded,
           NEW p \in DOMAIN fs[e], p \notin VssExcluded
    PROVE  p \in Objects(e)
<1>1. CASE IsBelowIncompleteDirectory(e, p)
  <2>1. PICK d \in Incomplete(e) : d \in Ancestors[p]
    BY <1>1 DEF IsBelowIncompleteDirectory, Incomplete
  <2> QED BY <2>1, ExcludedBelow, VolumeFacts
<1> QED BY <1>1, InventoryIsComplete

-----------------------------------------------------------------------------
(* The traversals' steps.                                                  *)

\* A step that leaves a traversal alone preserves its invariant, whether or
\* not the event is signaled in it.
LEMMA TraverserUnchanged ==
    ASSUME NEW e, TraverserInv(e),
           cancellation_event => cancellation_event',
           UNCHANGED <<fs, pending_[e], active_[e], failure_[e], inventory[e],
                       run[e], worker[e]>>
    PROVE  TraverserInv(e)'
<1>1. TraverserType(e)'
  BY DEF TraverserInv, TraverserType, WorkerStates, Objects
<1>2. IdleInv(e)'
  BY DEF TraverserInv, IdleInv, Objects
<1>3. \A q : Reached(e, q)' <=> Reached(e, q)
  BY DEF Reached, Objects
<1>4. \A p, q : ToBeListed(e, p, q)' <=> ToBeListed(e, p, q)
  BY DEF ToBeListed
<1>5. \A p : Listing(e, p)' <=> Listing(e, p)
  BY DEF Listing
<1>6. \A p, o : Reported(e, p, o)' <=> Reported(e, p, o)
  BY DEF Reported
<1>7. \A p : Unlisted(e, p)' <=> Unlisted(e, p)
  BY DEF Unlisted, IsDirectory
<1>8. /\ Children(e)' = Children(e)
      /\ Objects(e)' = Objects(e)
      /\ Incomplete(e)' = Incomplete(e)
      /\ Busy(e)' = Busy(e)
  BY DEF Children, Objects, Incomplete, Busy
<1>9. RunningInv(e)'
  BY <1>3, <1>4, <1>5, <1>6, <1>7, <1>8
     DEF TraverserInv, RunningInv, CountInv, DoneInv, CoverInv
<1>10. InventoryInv(e)'
  BY <1>6, <1>7, <1>8 DEF TraverserInv, InventoryInv, Inventory
<1>11. IssuesComplete(e)'
  BY <1>6, <1>8 DEF TraverserInv, IssuesComplete, Issues
<1> QED BY <1>1, <1>2, <1>9, <1>10, <1>11 DEF TraverserInv

\* The other traversal.
LEMMA ElsewhereUnchanged ==
    ASSUME TraversalInv, NEW e \in Endpoints, ShapeInv', UNCHANGED fs,
           cancellation_event => cancellation_event',
           \A x \in Endpoints \ {e} :
              UNCHANGED <<pending_[x], active_[x], failure_[x], inventory[x],
                          run[x], worker[x]>>,
           TraverserInv(e)'
    PROVE  TraversalInv'
<1>1. \A x \in Endpoints \ {e} : TraverserInv(x)'
  BY TraverserUnchanged DEF TraversalInv
<1> QED BY <1>1 DEF TraversalInv

\* Worker w of e changes to r, and no other worker does.
Moves(e, w, r) ==
    /\ worker' = [x \in Endpoints |-> worker'[x]]
    /\ \A x \in Endpoints \ {e} : worker'[x] = worker[x]
    /\ worker'[e] = [worker[e] EXCEPT ![w] = r]

\* Goto changes the step of a worker only.
LEMMA GotoMoves ==
    ASSUME ShapeInv, NEW e \in Endpoints, TraverserType(e),
           NEW w \in Workers[e], NEW pc, Goto(e, w, pc)
    PROVE  Moves(e, w, [pc |-> pc, path |-> worker[e][w].path,
                        entries |-> worker[e][w].entries])
<1>1. worker' = [worker EXCEPT ![e] =
                   [worker[e] EXCEPT ![w] = [worker[e][w] EXCEPT !.pc = pc]]]
  BY DEF Goto
<1>2. worker[e][w] \in WorkerStates(e)
  BY DEF TraverserType
<1>3. [worker[e][w] EXCEPT !.pc = pc]
         = [pc |-> pc, path |-> worker[e][w].path,
            entries |-> worker[e][w].entries]
  BY <1>2 DEF WorkerStates
<1> QED BY <1>1, <1>3 DEF ShapeInv, Moves

\* What Moves says of the workers one by one.
LEMMA MovesFacts ==
    ASSUME NEW e \in Endpoints, TraverserType(e), NEW w \in Workers[e], NEW r,
           Moves(e, w, r)
    PROVE  /\ worker'[e][w] = r
           /\ \A v \in Workers[e] \ {w} : worker'[e][v] = worker[e][v]
           /\ UNCHANGED fs /\ r \in WorkerStates(e) =>
                 worker'[e] \in [Workers[e] -> WorkerStates(e)']
BY DEF TraverserType, Moves, WorkerStates

\* How many workers have a task after the step.
LEMMA MovesBusy ==
    ASSUME NEW e \in Endpoints, TraverserType(e), NEW w \in Workers[e], NEW r,
           Moves(e, w, r)
    PROVE  /\ IsFiniteSet(Busy(e))
           /\ Cardinality(Busy(e)) \in Nat
           /\ r.pc \in InIo /\ worker[e][w].pc \notin InIo =>
                 Cardinality(Busy(e)') = Cardinality(Busy(e)) + 1
           /\ r.pc \notin InIo /\ worker[e][w].pc \in InIo =>
                 Cardinality(Busy(e)') = Cardinality(Busy(e)) - 1
           /\ (r.pc \in InIo <=> worker[e][w].pc \in InIo) =>
                 Busy(e)' = Busy(e)
<1>1. /\ worker'[e][w] = r
      /\ \A v \in Workers[e] \ {w} : worker'[e][v] = worker[e][v]
  BY MovesFacts
<1>2. IsFiniteSet(Busy(e)) /\ Cardinality(Busy(e)) \in Nat
  BY FS_Subset, FS_CardinalityType, WorkersAssumption DEF Busy
<1>3. ASSUME r.pc \in InIo, worker[e][w].pc \notin InIo
      PROVE  Cardinality(Busy(e)') = Cardinality(Busy(e)) + 1
  <2>1. Busy(e)' = Busy(e) \cup {w} /\ w \notin Busy(e)
    BY <1>1, <1>3 DEF Busy
  <2> QED BY <1>2, <2>1, FS_AddElement
<1>4. ASSUME r.pc \notin InIo, worker[e][w].pc \in InIo
      PROVE  Cardinality(Busy(e)') = Cardinality(Busy(e)) - 1
  <2>1. Busy(e)' = Busy(e) \ {w} /\ w \in Busy(e)
    BY <1>1, <1>4 DEF Busy
  <2> QED BY <1>2, <2>1, FS_RemoveElement
<1>5. ASSUME r.pc \in InIo <=> worker[e][w].pc \in InIo
      PROVE  Busy(e)' = Busy(e)
  BY <1>1, <1>5 DEF Busy
<1> QED BY <1>2, <1>3, <1>4, <1>5

\* A worker that has been started and has not returned runs in a traversal
\* that has been started and has not returned.
LEMMA WorkerRuns ==
    ASSUME NEW e \in Endpoints, TraverserInv(e), NEW w \in Workers[e],
           worker[e][w].pc \notin {"unborn", "done"}
    PROVE  run[e] \notin {"idle", "inventory"}
BY DEF TraverserInv, IdleInv, InventoryInv, Inventory

\* The commitment of an object.
LEMMA CommitEffect ==
    ASSUME InventoryShape, NEW e \in Endpoints, NEW p, NEW issues,
           NEW incomplete, Commit(e, p, issues, incomplete)
    PROVE  /\ \A x \in Endpoints \ {e} : inventory'[x] = inventory[x]
           /\ Objects(e)' = Objects(e) \cup {p}
           /\ inventory'[e].issues = inventory[e].issues \cup issues
           /\ Incomplete(e)' = Incomplete(e) \cup incomplete
<1>1. DOMAIN inventory = Endpoints
  BY DEF InventoryShape
<1>2. inventory[e] = [objects |-> inventory[e].objects,
                      issues |-> inventory[e].issues,
                      incomplete_directories |->
                          inventory[e].incomplete_directories]
  BY DEF InventoryShape
<1>3. inventory'[e] = [objects |-> inventory[e].objects \cup {p},
                       issues |-> inventory[e].issues \cup issues,
                       incomplete_directories |->
                           inventory[e].incomplete_directories \cup incomplete]
  BY <1>1, <1>2 DEF Commit
<1>4. \A x \in Endpoints \ {e} : inventory'[x] = inventory[x]
  BY <1>1 DEF Commit
<1> QED BY <1>3, <1>4 DEF Objects, Incomplete

\* A sequence is appended to a queue.
LEMMA QueueAppend ==
    ASSUME NEW S, NEW s \in Seq(S), NEW t \in Seq(S)
    PROVE  /\ s \o t \in Seq(S)
           /\ ToSet(s \o t) = ToSet(s) \cup ToSet(t)
<1> DEFINE u == s \o t
<1>0. u \in Seq(S)
  OBVIOUS
<1>1. \A i \in DOMAIN t : Len(s) + i \in DOMAIN u /\ u[Len(s) + i] = t[i]
  OBVIOUS
<1>2. \A i \in DOMAIN s : i \in DOMAIN u /\ u[i] = s[i]
  OBVIOUS
<1>3. \A k \in DOMAIN u :
         \/ k \in DOMAIN s /\ u[k] = s[k]
         \/ k - Len(s) \in DOMAIN t /\ u[k] = t[k - Len(s)]
  OBVIOUS
<1> HIDE DEF u
<1>4. ToSet(u) \subseteq ToSet(s) \cup ToSet(t)
  BY <1>3 DEF ToSet
<1>5. ToSet(s) \subseteq ToSet(u)
  BY <1>2 DEF ToSet
<1>6. ToSet(t) \subseteq ToSet(u)
  <2> SUFFICES ASSUME NEW i \in DOMAIN t PROVE t[i] \in ToSet(u)
    BY DEF ToSet
  <2> QED BY <1>1 DEF ToSet
<1> QED BY <1>0, <1>4, <1>5, <1>6 DEF u

\* The head and the tail of a queue.
LEMMA QueueTail ==
    ASSUME NEW S, NEW s \in Seq(S), s # <<>>
    PROVE  /\ Head(s) \in S
           /\ Tail(s) \in Seq(S)
           /\ ToSet(s) \subseteq {Head(s)} \cup ToSet(Tail(s))
<1>1. Head(s) \in S /\ Tail(s) \in Seq(S)
  OBVIOUS
<1>2. \A k \in DOMAIN s :
         k = 1 \/ (k - 1 \in DOMAIN Tail(s) /\ Tail(s)[k - 1] = s[k])
  OBVIOUS
<1>3. Head(s) = s[1]
  OBVIOUS
<1>4. ASSUME NEW k \in DOMAIN s PROVE s[k] \in {Head(s)} \cup ToSet(Tail(s))
  <2> DEFINE u == Tail(s)
  <2>1. k = 1 \/ (k - 1 \in DOMAIN u /\ u[k - 1] = s[k])
    BY <1>2
  <2> HIDE DEF u
  <2>2. k = 1 \/ s[k] \in ToSet(u)
    BY <2>1 DEF ToSet
  <2> QED BY <1>3, <2>2 DEF u
<1>5. ToSet(s) \subseteq {Head(s)} \cup ToSet(Tail(s))
  BY <1>4 DEF ToSet
<1> QED BY <1>1, <1>5

\* The empty queue, and a queue of one task.
LEMMA QueueEmpty == ToSet(<<>>) = {}
BY DEF ToSet

\* A queue of one task has that task only.
LEMMA QueueOfOne ==
    ASSUME NEW S, NEW x \in S
    PROVE  <<x>> \in Seq(S) /\ x \in ToSet(<<x>>)
<1>1. 1 \in DOMAIN <<x>> /\ <<x>>[1] = x
  OBVIOUS
<1> QED BY <1>1 DEF ToSet

\* A queue of tasks of a subset.
LEMMA SeqOfSubset ==
    ASSUME NEW S, NEW T \in SUBSET S, NEW s \in Seq(T)
    PROVE  s \in Seq(S)
OBVIOUS

\* A task stays reached if the queue only grows and the worker that has it
\* keeps or commits it.
LEMMA ReachedStays ==
    ASSUME NEW e \in Endpoints, TraverserType(e), NEW w \in Workers[e], NEW r,
           Moves(e, w, r), Objects(e) \subseteq Objects(e)',
           ToSet(pending_[e]) \subseteq ToSet(pending_'[e]),
           worker[e][w].pc \in {"open", "streams"} =>
              \/ worker[e][w].path \in Objects(e)'
              \/ r.pc \in {"open", "streams"} /\ r.path = worker[e][w].path,
           NEW q, Reached(e, q)
    PROVE  Reached(e, q)'
<1>1. /\ worker'[e][w] = r
      /\ \A v \in Workers[e] \ {w} : worker'[e][v] = worker[e][v]
  BY MovesFacts
<1>2. CASE q \in ToSet(pending_[e])
  BY <1>2 DEF Reached
<1>3. CASE q \in Objects(e)
  BY <1>3 DEF Reached
<1>4. ASSUME NEW v \in Workers[e], worker[e][v].pc \in {"open", "streams"},
             worker[e][v].path = q
      PROVE  Reached(e, q)'
  <2>1. CASE v = w
    BY <1>1, <1>4, <2>1 DEF Reached
  <2>2. CASE v # w
    BY <1>1, <1>4, <2>2 DEF Reached
  <2> QED BY <2>1, <2>2
<1> QED BY <1>2, <1>3, <1>4 DEF Reached

\* A worker that lists a directory and is not the one that moves.
LEMMA ListingStays ==
    ASSUME NEW e \in Endpoints, TraverserType(e), NEW w \in Workers[e], NEW r,
           Moves(e, w, r), worker[e][w].pc # "list"
    PROVE  /\ \A p : Listing(e, p) => Listing(e, p)'
           /\ \A p, q : ToBeListed(e, p, q) => ToBeListed(e, p, q)'
<1>1. \A v \in Workers[e] \ {w} : worker'[e][v] = worker[e][v]
  BY MovesFacts
<1> QED BY <1>1 DEF Listing, ToBeListed

\* Issues are only added.
LEMMA ReportedStays ==
    ASSUME NEW e, inventory[e].issues \subseteq inventory'[e].issues
    PROVE  \A p, o : Reported(e, p, o) => Reported(e, p, o)'
BY DEF Reported

\* A worker returns or throws: the traversal is stopped, or has no tasks left.
LEMMA WorkerEnds ==
    ASSUME TraversalInv, NEW e \in Endpoints, NEW w \in Workers[e],
           worker[e][w].pc \notin {"unborn", "done"}, Goto(e, w, "done"),
           UNCHANGED <<fs, cancellation_event, pending_, active_, inventory,
                       run>>,
           failure_' \in {failure_, [failure_ EXCEPT ![e] = TRUE]},
           \/ cancellation_event
           \/ failure_'[e]
           \/ pending_[e] = <<>> /\ active_[e] = 0
    PROVE  TraversalInv'
<1>0. ShapeInv /\ TraverserInv(e) /\ TraverserType(e)
  BY DEF TraversalInv, TraverserInv
<1> DEFINE r == [pc |-> "done", path |-> worker[e][w].path,
                 entries |-> worker[e][w].entries]
<1>1. Moves(e, w, r)
  BY <1>0, GotoMoves
<1>2. /\ worker'[e][w] = r
      /\ \A v \in Workers[e] \ {w} : worker'[e][v] = worker[e][v]
  BY <1>0, <1>1, MovesFacts
<1>3. ShapeInv'
  BY <1>0, <1>1 DEF ShapeInv, Moves
<1>4. TraverserType(e)'
  <2>1. worker[e][w] \in WorkerStates(e)
    BY <1>0 DEF TraverserType
  <2>2. r \in WorkerStates(e)
    BY <2>1 DEF WorkerStates
  <2>3. worker'[e] \in [Workers[e] -> WorkerStates(e)']
    BY <1>0, <1>1, <2>2, MovesFacts
  <2> QED BY <1>0, <2>3 DEF TraverserType, Objects
<1>5. run[e] \notin {"idle", "inventory"}
  BY <1>0, WorkerRuns
<1>6. IssuesComplete(e)'
  BY <1>0, <1>2 DEF TraverserInv, IssuesComplete, Issues, Objects, Reported
<1>7. RunningInv(e)'
  <2> SUFFICES ASSUME run[e] = "running", ~cancellation_event, ~failure_'[e]
               PROVE  CountInv(e)' /\ DoneInv(e)' /\ CoverInv(e)'
    BY DEF RunningInv
  <2>0. ~failure_[e]
    BY <1>0 DEF ShapeInv
  <2>1. CountInv(e) /\ CoverInv(e)
    BY <1>0, <2>0 DEF TraverserInv, RunningInv
  <2>2. IsFiniteSet(Busy(e)) /\ Cardinality(Busy(e)) = 0
    BY <1>0, <1>1, <2>1, MovesBusy DEF CountInv
  <2>3. Busy(e) = {}
    BY <2>2, FS_EmptySet
  <2>4. worker[e][w].pc \notin InIo
    BY <2>3 DEF Busy
  <2>5. Busy(e)' = Busy(e)
    BY <1>0, <1>1, <2>4, MovesBusy DEF InIo
  <2>6. CountInv(e)' /\ DoneInv(e)'
    BY <2>1, <2>3, <2>5 DEF CountInv, DoneInv
  <2>7. CoverInv(e)'
    <3>1. Objects(e)' = Objects(e) /\ Incomplete(e)' = Incomplete(e)
          /\ Children(e)' = Children(e)
      BY DEF Objects, Incomplete, Children
    <3>2. \A q : Reached(e, q) => Reached(e, q)'
      BY <1>0, <1>1, <2>4, <3>1, ReachedStays DEF InIo
    <3>3. /\ \A p : Listing(e, p) => Listing(e, p)'
          /\ \A p, q : ToBeListed(e, p, q) => ToBeListed(e, p, q)'
      BY <1>0, <1>1, <2>4, ListingStays DEF InIo
    <3>4. \A p, o : Reported(e, p, o) => Reported(e, p, o)'
      BY ReportedStays
    <3>5. \A p : Unlisted(e, p)' <=> Unlisted(e, p)
      BY DEF Unlisted, IsDirectory
    <3> QED BY <2>1, <3>1, <3>2, <3>3, <3>4, <3>5 DEF CoverInv
  <2> QED BY <2>6, <2>7
<1>8. TraverserInv(e)'
  BY <1>4, <1>5, <1>6, <1>7 DEF TraverserInv, IdleInv, InventoryInv
<1>9. \A x \in Endpoints \ {e} :
         UNCHANGED <<pending_[x], active_[x], failure_[x], inventory[x],
                     run[x], worker[x]>>
  BY <1>0, <1>1 DEF ShapeInv, Moves
<1> QED BY <1>3, <1>8, <1>9, ElsewhereUnchanged

\* A worker takes the first task of the queue.
LEMMA WorkerTakes ==
    ASSUME TraversalInv, NEW e \in Endpoints, NEW w \in Workers[e],
           worker[e][w].pc \in {"start", "take"}, pending_[e] # <<>>,
           worker' = [worker EXCEPT ![e][w] =
                        [pc |-> "open", path |-> Head(pending_[e]),
                         entries |-> {}]],
           pending_' = [pending_ EXCEPT ![e] = Tail(@)],
           active_' = [active_ EXCEPT ![e] = @ + 1],
           UNCHANGED <<fs, cancellation_event, failure_, inventory, run>>
    PROVE  TraversalInv'
<1>0. ShapeInv /\ TraverserInv(e) /\ TraverserType(e)
  BY DEF TraversalInv, TraverserInv
<1> DEFINE r == [pc |-> "open", path |-> Head(pending_[e]), entries |-> {}]
<1>1. Moves(e, w, r)
  BY <1>0 DEF ShapeInv, Moves
<1>2. /\ worker'[e][w] = r
      /\ \A v \in Workers[e] \ {w} : worker'[e][v] = worker[e][v]
  BY <1>0, <1>1, MovesFacts
<1>3. /\ pending_'[e] = Tail(pending_[e])
      /\ active_'[e] = active_[e] + 1
      /\ pending_[e] \in Seq(DOMAIN fs[e])
  BY <1>0 DEF ShapeInv, TraverserType
<1>4. ShapeInv'
  BY <1>0, <1>1 DEF ShapeInv, Moves
<1>5. TraverserType(e)'
  <2>1. r \in WorkerStates(e)
    BY <1>3 DEF WorkerStates
  <2>2. worker'[e] \in [Workers[e] -> WorkerStates(e)']
    BY <1>0, <1>1, <2>1, MovesFacts
  <2>3. pending_'[e] \in Seq(DOMAIN fs[e])
    BY <1>3, QueueTail
  <2> QED BY <1>0, <1>3, <2>2, <2>3 DEF TraverserType, Objects
<1>6. run[e] \notin {"idle", "inventory"}
  BY <1>0, WorkerRuns
<1>7. IssuesComplete(e)'
  BY <1>0, <1>2 DEF TraverserInv, IssuesComplete, Issues, Objects, Reported
<1>8. RunningInv(e)'
  <2> SUFFICES ASSUME run[e] = "running", ~cancellation_event, ~failure_[e]
               PROVE  CountInv(e)' /\ DoneInv(e)' /\ CoverInv(e)'
    BY DEF RunningInv
  <2>1. CountInv(e) /\ DoneInv(e) /\ CoverInv(e)
    BY <1>0 DEF TraverserInv, RunningInv
  <2>2. CountInv(e)'
    <3>1. r.pc \in InIo /\ worker[e][w].pc \notin InIo
      BY DEF InIo
    <3>2. Cardinality(Busy(e)') = Cardinality(Busy(e)) + 1
      BY <1>0, <1>1, <3>1, MovesBusy
    <3> QED BY <1>3, <2>1, <3>2 DEF CountInv
  <2>3. DoneInv(e)'
    BY <1>2, <2>1 DEF DoneInv
  <2>4. \A q : Reached(e, q) => Reached(e, q)'
    <3> SUFFICES ASSUME NEW q, Reached(e, q) PROVE Reached(e, q)'
      OBVIOUS
    <3>1. CASE q \in Objects(e)
      BY <3>1 DEF Reached, Objects
    <3>2. CASE q \in ToSet(pending_[e])
      <4>1. CASE q = Head(pending_[e])
        BY <1>2, <4>1 DEF Reached
      <4>2. CASE q \in ToSet(pending_'[e])
        BY <4>2 DEF Reached
      <4>3. ToSet(pending_[e])
               \subseteq {Head(pending_[e])} \cup ToSet(pending_'[e])
        BY <1>3, QueueTail
      <4> QED BY <3>2, <4>1, <4>2, <4>3
    <3>3. ASSUME NEW v \in Workers[e],
                 worker[e][v].pc \in {"open", "streams"},
                 worker[e][v].path = q
          PROVE  Reached(e, q)'
      BY <1>2, <3>3 DEF Reached
    <3> QED BY <3>1, <3>2, <3>3 DEF Reached
  <2>5. CoverInv(e)'
    <3>1. Objects(e)' = Objects(e) /\ Incomplete(e)' = Incomplete(e)
          /\ Children(e)' = Children(e)
      BY DEF Objects, Incomplete, Children
    <3>2. /\ \A p : Listing(e, p) => Listing(e, p)'
          /\ \A p, q : ToBeListed(e, p, q) => ToBeListed(e, p, q)'
      BY <1>0, <1>1, ListingStays
    <3>3. \A p, o : Reported(e, p, o) => Reported(e, p, o)'
      BY ReportedStays
    <3>4. \A p : Unlisted(e, p)' <=> Unlisted(e, p)
      BY DEF Unlisted, IsDirectory
    <3> QED BY <2>1, <2>4, <3>1, <3>2, <3>3, <3>4 DEF CoverInv
  <2> QED BY <2>2, <2>3, <2>5
<1>9. TraverserInv(e)'
  BY <1>5, <1>6, <1>7, <1>8 DEF TraverserInv, IdleInv, InventoryInv
<1>10. \A x \in Endpoints \ {e} :
          UNCHANGED <<pending_[x], active_[x], failure_[x], inventory[x],
                      run[x], worker[x]>>
  BY <1>0, <1>1 DEF ShapeInv, Moves
<1> QED BY <1>4, <1>9, <1>10, ElsewhereUnchanged

\* The failures on record stay on record.
LEMMA IssuesStay ==
    ASSUME NEW e, UNCHANGED fs,
           inventory[e].issues \subseteq inventory'[e].issues
    PROVE  \A p : Issues(e, p) => Issues(e, p)'
BY ReportedStays DEF Issues

\* A worker completes its task p: it has committed p with its issues, and p is
\* not a directory, or known to be incomplete, or listed to its end.
LEMMA WorkerCompletes ==
    ASSUME TraversalInv, NEW e \in Endpoints, NEW w \in Workers[e],
           worker[e][w].pc \in InIo, Complete(e, w),
           NEW p, p = worker[e][w].path,
           UNCHANGED <<fs, cancellation_event, pending_, failure_, run>>,
           \A x \in Endpoints \ {e} : inventory'[x] = inventory[x],
           Objects(e) \subseteq Objects(e)',
           Objects(e)' \subseteq Objects(e) \cup {p},
           inventory[e].issues \subseteq inventory'[e].issues,
           Incomplete(e) \subseteq Incomplete(e)',
           worker[e][w].pc \in {"open", "streams"} => p \in Objects(e)',
           p \in Objects(e) \/ Issues(e, p)' \/ Objects(e)' = Objects(e),
           \/ ~IsDirectory(e, p)
           \/ p \in Incomplete(e)'
           \/ /\ worker[e][w].pc = "list"
              /\ worker[e][w].entries = {}
              /\ Objects(e)' = Objects(e),
           Unlisted(e, p) => Reported(e, p, "QueryDirectory")'
    PROVE  TraversalInv'
<1>0. ShapeInv /\ TraverserInv(e) /\ TraverserType(e)
  BY DEF TraversalInv, TraverserInv
<1> DEFINE r == [pc |-> "take", path |-> worker[e][w].path,
                 entries |-> worker[e][w].entries]
<1>1. Moves(e, w, r)
  BY <1>0, GotoMoves DEF Complete
<1>2. /\ worker'[e][w] = r
      /\ \A v \in Workers[e] \ {w} : worker'[e][v] = worker[e][v]
  BY <1>0, <1>1, MovesFacts
<1>3. active_'[e] = active_[e] - 1
  BY <1>0 DEF ShapeInv, Complete
<1>4. ShapeInv'
  BY <1>0, <1>1 DEF ShapeInv, Moves, Complete
<1>5. worker[e][w] \in WorkerStates(e)
  BY <1>0 DEF TraverserType
<1>6. p \in DOMAIN fs[e]
  BY <1>5 DEF WorkerStates
<1>7. TraverserType(e)'
  <2>1. r \in WorkerStates(e)
    BY <1>5 DEF WorkerStates
  <2>2. worker'[e] \in [Workers[e] -> WorkerStates(e)']
    BY <1>0, <1>1, <2>1, MovesFacts
  <2>3. Objects(e)' \subseteq DOMAIN fs[e]
    BY <1>0, <1>6 DEF TraverserType
  <2> QED BY <1>0, <1>3, <2>2, <2>3 DEF TraverserType
<1>8. run[e] \notin {"idle", "inventory"}
  BY <1>0, WorkerRuns DEF InIo
<1>9. IssuesComplete(e)'
  <2>1. \A q \in Objects(e)' : Issues(e, q)'
    BY <1>0, IssuesStay DEF TraverserInv, IssuesComplete
  <2> QED BY <1>0, <1>2, <2>1 DEF TraverserInv, IssuesComplete
<1>10. RunningInv(e)'
  <2> SUFFICES ASSUME run[e] = "running", ~cancellation_event, ~failure_[e]
               PROVE  CountInv(e)' /\ DoneInv(e)' /\ CoverInv(e)'
    BY DEF RunningInv
  <2>1. CountInv(e) /\ DoneInv(e) /\ CoverInv(e)
    BY <1>0 DEF TraverserInv, RunningInv
  <2>2. CountInv(e)'
    <3>1. r.pc \notin InIo
      BY DEF InIo
    <3>2. Cardinality(Busy(e)') = Cardinality(Busy(e)) - 1
      BY <1>0, <1>1, <3>1, MovesBusy
    <3> QED BY <1>3, <2>1, <3>2 DEF CountInv
  <2>3. DoneInv(e)'
    <3>1. w \in Busy(e)
      BY DEF Busy
    <3>2. \A v \in Workers[e] : worker[e][v].pc # "done"
      BY <2>1, <3>1 DEF DoneInv
    <3> QED BY <1>2, <3>2 DEF DoneInv
  <2>4. \A q : Reached(e, q) => Reached(e, q)'
    BY <1>0, <1>1, ReachedStays
  <2>5. \A d, q : ToBeListed(e, d, q) /\ d # p => ToBeListed(e, d, q)'
    BY <1>2 DEF ToBeListed
  <2>6. \A d : Listing(e, d) /\ d # p => Listing(e, d)'
    BY <1>2 DEF Listing
  <2>7. ASSUME NEW q \in Children(e), Parent[q] \in Objects(e)'
        PROVE  \/ Reached(e, q)'
               \/ ToBeListed(e, Parent[q], q)'
               \/ Parent[q] \in Incomplete(e)'
    <3>1. CASE Parent[q] # p
      BY <2>1, <2>4, <2>5, <2>7, <3>1 DEF CoverInv
    <3>2. CASE Parent[q] = p /\ p \notin Incomplete(e)'
      <4>1. IsDirectory(e, p)
        BY <1>0, <3>2, VolumeFacts DEF ShapeInv
      <4>2. /\ worker[e][w].entries = {}
            /\ p \in Objects(e)
        BY <2>7, <3>2, <4>1
      <4>3. Reached(e, q) \/ ToBeListed(e, p, q)
        BY <2>1, <3>2, <4>2 DEF CoverInv
      <4>4. ToBeListed(e, p, q) => ToBeListed(e, p, q)'
        BY <1>2, <4>2 DEF ToBeListed
      <4> QED BY <2>4, <3>2, <4>3, <4>4
    <3> QED BY <3>1, <3>2
  <2>8. ASSUME NEW d \in Objects(e)', Unlisted(e, d)
        PROVE  Reported(e, d, "QueryDirectory")' \/ Listing(e, d)'
    <3>1. CASE d = p
      BY <2>8, <3>1
    <3>2. CASE d # p
      BY <2>1, <2>6, <2>8, <3>2, ReportedStays DEF CoverInv
    <3> QED BY <3>1, <3>2
  <2>9. CoverInv(e)'
    <3>1. Children(e)' = Children(e)
      BY DEF Children
    <3>2. \A d : Unlisted(e, d)' <=> Unlisted(e, d)
      BY DEF Unlisted, IsDirectory
    <3>3. Reached(e, Root)'
      BY <2>1, <2>4 DEF CoverInv
    <3> QED BY <2>7, <2>8, <3>1, <3>2, <3>3 DEF CoverInv
  <2> QED BY <2>2, <2>3, <2>9
<1>11. TraverserInv(e)'
  BY <1>7, <1>8, <1>9, <1>10 DEF TraverserInv, IdleInv, InventoryInv
<1>12. \A x \in Endpoints \ {e} :
          UNCHANGED <<pending_[x], active_[x], failure_[x], inventory[x],
                      run[x], worker[x]>>
  BY <1>0, <1>1 DEF ShapeInv, Moves, Complete
<1> QED BY <1>4, <1>11, <1>12, ElsewhereUnchanged

\* A worker goes on with the object that it has opened.
LEMMA WorkerOpened ==
    ASSUME TraversalInv, NEW e \in Endpoints, NEW w \in Workers[e],
           worker[e][w].pc = "open", fs[e][worker[e][w].path].open = "none",
           Goto(e, w, "streams"),
           UNCHANGED <<fs, cancellation_event, pending_, active_, failure_,
                       inventory, run>>
    PROVE  TraversalInv'
<1>0. ShapeInv /\ TraverserInv(e) /\ TraverserType(e)
  BY DEF TraversalInv, TraverserInv
<1> DEFINE r == [pc |-> "streams", path |-> worker[e][w].path,
                 entries |-> worker[e][w].entries]
<1>1. Moves(e, w, r)
  BY <1>0, GotoMoves
<1>2. /\ worker'[e][w] = r
      /\ \A v \in Workers[e] \ {w} : worker'[e][v] = worker[e][v]
  BY <1>0, <1>1, MovesFacts
<1>3. ShapeInv'
  BY <1>0, <1>1 DEF ShapeInv, Moves
<1>4. TraverserType(e)'
  <2>1. worker[e][w] \in WorkerStates(e)
    BY <1>0 DEF TraverserType
  <2>2. r \in WorkerStates(e)
    BY <2>1 DEF WorkerStates
  <2>3. worker'[e] \in [Workers[e] -> WorkerStates(e)']
    BY <1>0, <1>1, <2>2, MovesFacts
  <2> QED BY <1>0, <2>3 DEF TraverserType, Objects
<1>5. run[e] \notin {"idle", "inventory"}
  BY <1>0, WorkerRuns
<1>6. IssuesComplete(e)'
  BY <1>0, <1>2 DEF TraverserInv, IssuesComplete, Issues, Objects, Reported
<1>7. RunningInv(e)'
  <2> SUFFICES ASSUME run[e] = "running", ~cancellation_event, ~failure_[e]
               PROVE  CountInv(e)' /\ DoneInv(e)' /\ CoverInv(e)'
    BY DEF RunningInv
  <2>1. CountInv(e) /\ DoneInv(e) /\ CoverInv(e)
    BY <1>0 DEF TraverserInv, RunningInv
  <2>2. Busy(e)' = Busy(e)
    BY <1>0, <1>1, MovesBusy DEF InIo
  <2>3. CountInv(e)' /\ DoneInv(e)'
    BY <1>2, <2>1, <2>2 DEF CountInv, DoneInv
  <2>4. CoverInv(e)'
    <3>1. Objects(e)' = Objects(e) /\ Incomplete(e)' = Incomplete(e)
          /\ Children(e)' = Children(e)
      BY DEF Objects, Incomplete, Children
    <3>2. \A q : Reached(e, q) => Reached(e, q)'
      BY <1>0, <1>1, <3>1, ReachedStays
    <3>3. /\ \A p : Listing(e, p) => Listing(e, p)'
          /\ \A p, q : ToBeListed(e, p, q) => ToBeListed(e, p, q)'
      BY <1>0, <1>1, ListingStays
    <3>4. \A p, o : Reported(e, p, o) => Reported(e, p, o)'
      BY ReportedStays
    <3>5. \A p : Unlisted(e, p)' <=> Unlisted(e, p)
      BY DEF Unlisted, IsDirectory
    <3> QED BY <2>1, <3>1, <3>2, <3>3, <3>4, <3>5 DEF CoverInv
  <2> QED BY <2>3, <2>4
<1>8. TraverserInv(e)'
  BY <1>4, <1>5, <1>6, <1>7 DEF TraverserInv, IdleInv, InventoryInv
<1>9. \A x \in Endpoints \ {e} :
         UNCHANGED <<pending_[x], active_[x], failure_[x], inventory[x],
                     run[x], worker[x]>>
  BY <1>0, <1>1 DEF ShapeInv, Moves
<1> QED BY <1>3, <1>8, <1>9, ElsewhereUnchanged

\* A worker commits directory p and begins to list it.
LEMMA WorkerLists ==
    ASSUME TraversalInv, NEW e \in Endpoints, NEW w \in Workers[e],
           worker[e][w].pc = "streams", NEW p, p = worker[e][w].path,
           worker' = [worker EXCEPT ![e][w] =
                        [pc |-> "list", path |-> p,
                         entries |-> {q \in DOMAIN fs[e] \ {Root} :
                                         Parent[q] = p}]],
           UNCHANGED <<fs, cancellation_event, pending_, active_, failure_,
                       run>>,
           \A x \in Endpoints \ {e} : inventory'[x] = inventory[x],
           Objects(e)' = Objects(e) \cup {p},
           inventory[e].issues \subseteq inventory'[e].issues,
           Incomplete(e) \subseteq Incomplete(e)',
           Issues(e, p)'
    PROVE  TraversalInv'
<1>0. ShapeInv /\ TraverserInv(e) /\ TraverserType(e)
  BY DEF TraversalInv, TraverserInv
<1> DEFINE r == [pc |-> "list", path |-> p,
                 entries |-> {q \in DOMAIN fs[e] \ {Root} : Parent[q] = p}]
<1>1. Moves(e, w, r)
  BY <1>0 DEF ShapeInv, Moves
<1>2. /\ worker'[e][w] = r
      /\ \A v \in Workers[e] \ {w} : worker'[e][v] = worker[e][v]
  <2> HIDE DEF r
  <2> QED BY <1>0, <1>1 DEF Moves, TraverserType
<1>3. ShapeInv'
  BY <1>0, <1>1 DEF ShapeInv, Moves
<1>4. p \in DOMAIN fs[e]
  <2>1. worker[e][w] \in WorkerStates(e)
    BY <1>0 DEF TraverserType
  <2> QED BY <2>1 DEF WorkerStates
<1>5. TraverserType(e)'
  <2>1. r \in WorkerStates(e)
    BY <1>4 DEF WorkerStates
  <2>2. worker'[e] \in [Workers[e] -> WorkerStates(e)']
    BY <1>0, <1>1, <2>1, MovesFacts
  <2>3. Objects(e)' \subseteq DOMAIN fs[e]
    BY <1>0, <1>4 DEF TraverserType
  <2> QED BY <1>0, <2>2, <2>3 DEF TraverserType
<1>6. run[e] \notin {"idle", "inventory"}
  BY <1>0, WorkerRuns
<1>7. IssuesComplete(e)'
  <2>1. worker'[e][w].pc = "list" /\ worker'[e][w].path \in Objects(e)'
    BY <1>2
  <2>2. \A q \in Objects(e)' : Issues(e, q)'
    BY <1>0, IssuesStay DEF TraverserInv, IssuesComplete
  <2> HIDE DEF r
  <2> QED BY <1>0, <1>2, <2>1, <2>2 DEF TraverserInv, IssuesComplete
<1>8. RunningInv(e)'
  <2> SUFFICES ASSUME run[e] = "running", ~cancellation_event, ~failure_[e]
               PROVE  CountInv(e)' /\ DoneInv(e)' /\ CoverInv(e)'
    BY DEF RunningInv
  <2>1. CountInv(e) /\ DoneInv(e) /\ CoverInv(e)
    BY <1>0 DEF TraverserInv, RunningInv
  <2>2. Busy(e)' = Busy(e)
    BY <1>0, <1>1, MovesBusy DEF InIo
  <2>3. CountInv(e)' /\ DoneInv(e)'
    BY <1>2, <2>1, <2>2 DEF CountInv, DoneInv
  <2>4. CoverInv(e)'
    <3>1. Children(e)' = Children(e)
      BY DEF Children
    <3>2. \A q : Reached(e, q) => Reached(e, q)'
      BY <1>0, <1>1, ReachedStays
    <3>3. /\ \A d : Listing(e, d) => Listing(e, d)'
          /\ \A d, q : ToBeListed(e, d, q) => ToBeListed(e, d, q)'
      BY <1>0, <1>1, ListingStays
    <3>4. Listing(e, p)'
      BY <1>2 DEF Listing
    <3>5. ASSUME NEW q \in Children(e), Parent[q] = p
          PROVE  ToBeListed(e, p, q)'
      BY <1>2, <3>5 DEF ToBeListed, Children
    <3>6. \A d : Unlisted(e, d)' <=> Unlisted(e, d)
      BY DEF Unlisted, IsDirectory
    <3>7. \A d, o : Reported(e, d, o) => Reported(e, d, o)'
      BY ReportedStays
    <3> QED BY <2>1, <3>1, <3>2, <3>3, <3>4, <3>5, <3>6, <3>7 DEF CoverInv
  <2> QED BY <2>3, <2>4
<1>9. TraverserInv(e)'
  BY <1>5, <1>6, <1>7, <1>8 DEF TraverserInv, IdleInv, InventoryInv
<1>10. \A x \in Endpoints \ {e} :
          UNCHANGED <<pending_[x], active_[x], failure_[x], inventory[x],
                      run[x], worker[x]>>
  BY <1>0, <1>1 DEF ShapeInv, Moves
<1> QED BY <1>3, <1>9, <1>10, ElsewhereUnchanged

\* The members of a finite set in an order are a sequence.
LEMMA InOrderIsSeq ==
    ASSUME NEW S, IsFiniteSet(S), NEW s \in [1 .. Cardinality(S) -> S]
    PROVE  s \in Seq(S) /\ Len(s) = Cardinality(S)
<1>1. Cardinality(S) \in Nat
  BY FS_CardinalityType
<1> QED BY <1>1

\* A worker queues a batch of the entries of its directory.
LEMMA WorkerQueues ==
    ASSUME TraversalInv, NEW e \in Endpoints, NEW w \in Workers[e],
           worker[e][w].pc = "list", ~cancellation_event,
           NEW batch \in SUBSET worker[e][w].entries,
           NEW tasks \in Seq(batch),
           batch \subseteq ToSet(tasks),
           Queue(e, tasks),
           worker' = [worker EXCEPT ![e][w].entries = @ \ batch],
           UNCHANGED <<fs, cancellation_event, active_, failure_, inventory,
                       run>>
    PROVE  TraversalInv'
<1>0. ShapeInv /\ TraverserInv(e) /\ TraverserType(e)
  BY DEF TraversalInv, TraverserInv
<1> DEFINE r == [pc |-> "list", path |-> worker[e][w].path,
                 entries |-> worker[e][w].entries \ batch]
<1>a. worker[e][w] \in WorkerStates(e)
  BY <1>0 DEF TraverserType
<1>1. Moves(e, w, r)
  <2>1. [worker[e][w] EXCEPT !.entries = worker[e][w].entries \ batch] = r
    <3> DEFINE rest == worker[e][w].entries \ batch
    <3> HIDE DEF rest
    <3>1. [worker[e][w] EXCEPT !.entries = rest]
             = [pc |-> worker[e][w].pc, path |-> worker[e][w].path,
                entries |-> rest]
      BY <1>a DEF WorkerStates
    <3> QED BY <3>1 DEF rest
  <2>2. worker' = [worker EXCEPT ![e] =
                     [worker[e] EXCEPT ![w] =
                        [worker[e][w] EXCEPT
                           !.entries = worker[e][w].entries \ batch]]]
    OBVIOUS
  <2> HIDE DEF r
  <2> QED BY <1>0, <2>1, <2>2 DEF ShapeInv, Moves
<1>2. /\ worker'[e][w] = r
      /\ \A v \in Workers[e] \ {w} : worker'[e][v] = worker[e][v]
  <2> HIDE DEF r
  <2> QED BY <1>0, <1>1 DEF Moves, TraverserType
<1>b. tasks \in Seq(DOMAIN fs[e])
  <2>1. batch \in SUBSET DOMAIN fs[e]
    BY <1>a DEF WorkerStates
  <2> QED BY <2>1, SeqOfSubset
<1>c. pending_[e] \in Seq(DOMAIN fs[e])
  BY <1>0 DEF TraverserType
<1>3. /\ pending_' = [x \in Endpoints |-> pending_'[x]]
      /\ pending_'[e] = IF failure_[e] THEN pending_[e]
                        ELSE pending_[e] \o tasks
      /\ \A x \in Endpoints \ {e} : pending_'[x] = pending_[x]
  BY <1>0 DEF Queue, ShapeInv
<1>4. ShapeInv'
  BY <1>0, <1>1, <1>3 DEF ShapeInv, Moves
<1>5. TraverserType(e)'
  <2>1. r \in WorkerStates(e)
    BY <1>a DEF WorkerStates
  <2>2. worker'[e] \in [Workers[e] -> WorkerStates(e)']
    BY <1>0, <1>1, <2>1, MovesFacts
  <2>3. pending_'[e] \in Seq(DOMAIN fs[e])
    <3>1. pending_[e] \o tasks \in Seq(DOMAIN fs[e])
      BY <1>b, <1>c, QueueAppend
    <3> QED BY <1>3, <1>c, <3>1
  <2> QED BY <1>0, <2>2, <2>3 DEF TraverserType, Objects
<1>6. run[e] \notin {"idle", "inventory"}
  BY <1>0, WorkerRuns
<1>7. IssuesComplete(e)'
  BY <1>0, <1>2 DEF TraverserInv, IssuesComplete, Issues, Objects, Reported
<1>8. RunningInv(e)'
  <2> SUFFICES ASSUME run[e] = "running", ~failure_[e]
               PROVE  CountInv(e)' /\ DoneInv(e)' /\ CoverInv(e)'
    BY DEF RunningInv
  <2>1. CountInv(e) /\ DoneInv(e) /\ CoverInv(e)
    BY <1>0 DEF TraverserInv, RunningInv
  <2>2. Busy(e)' = Busy(e)
    BY <1>2 DEF InIo, Busy
  <2>3. CountInv(e)' /\ DoneInv(e)'
    <3>1. w \in Busy(e)
      BY DEF Busy, InIo
    <3>2. \A v \in Workers[e] : worker[e][v].pc # "done"
      BY <2>1, <3>1 DEF DoneInv
    <3> QED BY <1>2, <2>1, <2>2, <3>2 DEF CountInv, DoneInv
  <2>4. pending_'[e] = pending_[e] \o tasks
    BY <1>3
  <2>5. \A q : Reached(e, q) => Reached(e, q)'
    <3>1. ToSet(pending_[e]) \subseteq ToSet(pending_'[e])
      BY <1>b, <1>c, <2>4, QueueAppend
    <3>2. Objects(e)' = Objects(e)
      BY DEF Objects
    <3> QED BY <1>0, <1>1, <3>1, <3>2, ReachedStays
  <2>6. \A q \in batch : Reached(e, q)'
    <3> SUFFICES ASSUME NEW q \in batch PROVE Reached(e, q)'
      OBVIOUS
    <3>1. q \in ToSet(pending_'[e])
      BY <1>b, <1>c, <2>4, QueueAppend
    <3> QED BY <3>1 DEF Reached
  <2>7. \A p, q : ToBeListed(e, p, q) => ToBeListed(e, p, q)' \/ q \in batch
    <3> SUFFICES ASSUME NEW p, NEW q, NEW v \in Workers[e],
                        worker[e][v].pc = "list", worker[e][v].path = p,
                        q \in worker[e][v].entries, q \notin batch
                 PROVE  ToBeListed(e, p, q)'
      BY DEF ToBeListed
    <3>1. CASE v = w
      BY <1>2, <3>1 DEF ToBeListed
    <3>2. CASE v # w
      BY <1>2, <3>2 DEF ToBeListed
    <3> QED BY <3>1, <3>2
  <2>8. \A p : Listing(e, p) => Listing(e, p)'
    BY <1>2 DEF Listing
  <2>9. CoverInv(e)'
    <3>1. Objects(e)' = Objects(e) /\ Incomplete(e)' = Incomplete(e)
          /\ Children(e)' = Children(e)
      BY DEF Objects, Incomplete, Children
    <3>2. \A p, o : Reported(e, p, o) => Reported(e, p, o)'
      BY ReportedStays
    <3>3. \A p : Unlisted(e, p)' <=> Unlisted(e, p)
      BY DEF Unlisted, IsDirectory
    <3> QED BY <2>1, <2>5, <2>6, <2>7, <2>8, <3>1, <3>2, <3>3 DEF CoverInv
  <2> QED BY <2>3, <2>9
<1>9. TraverserInv(e)'
  BY <1>5, <1>6, <1>7, <1>8 DEF TraverserInv, IdleInv, InventoryInv
<1>10. \A x \in Endpoints \ {e} :
          UNCHANGED <<pending_[x], active_[x], failure_[x], inventory[x],
                      run[x], worker[x]>>
  BY <1>0, <1>1, <1>3 DEF ShapeInv, Moves
<1> QED BY <1>4, <1>9, <1>10, ElsewhereUnchanged

\* The traversal starts.
LEMMA RunStarts ==
    ASSUME TraversalInv, NEW e \in Endpoints, Run(e)
    PROVE  TraversalInv'
<1>0. ShapeInv /\ TraverserInv(e) /\ TraverserType(e)
  BY DEF TraversalInv, TraverserInv
<1>1. /\ UNCHANGED <<fs, cancellation_event, active_, failure_, inventory>>
      /\ run[e] = "idle"
      /\ run' = [run EXCEPT ![e] = "running"]
  BY DEF Run
<1>2. /\ worker' = [x \in Endpoints |-> worker'[x]]
      /\ \A x \in Endpoints \ {e} : worker'[x] = worker[x]
      /\ worker'[e] = [w \in Workers[e] |->
                         [worker[e][w] EXCEPT !.pc = "start"]]
  BY <1>0 DEF Run, ShapeInv
<1>3. \A w \in Workers[e] :
         /\ worker'[e][w] \in WorkerStates(e)
         /\ worker'[e][w].pc = "start"
  <2> SUFFICES ASSUME NEW w \in Workers[e]
               PROVE  /\ worker'[e][w] \in WorkerStates(e)
                      /\ worker'[e][w].pc = "start"
    OBVIOUS
  <2>1. worker[e][w] \in WorkerStates(e)
    BY <1>0 DEF TraverserType
  <2>2. worker'[e][w] = [worker[e][w] EXCEPT !.pc = "start"]
    BY <1>2
  <2> QED BY <2>1, <2>2 DEF WorkerStates
<1>4. /\ pending_' = [x \in Endpoints |-> pending_'[x]]
      /\ pending_'[e] = IF cancellation_event \/ failure_[e] THEN pending_[e]
                        ELSE pending_[e] \o <<Root>>
      /\ \A x \in Endpoints \ {e} : pending_'[x] = pending_[x]
  BY <1>0 DEF Run, Queue, ShapeInv
<1>5. ShapeInv'
  BY <1>0, <1>1, <1>2, <1>4 DEF ShapeInv
<1>6. /\ pending_[e] \in Seq(DOMAIN fs[e])
      /\ <<Root>> \in Seq(DOMAIN fs[e])
      /\ Root \in ToSet(<<Root>>)
  <2>1. Root \in DOMAIN fs[e]
    BY <1>0, VolumeFacts DEF ShapeInv
  <2> QED BY <1>0, <2>1, QueueOfOne DEF TraverserType
<1>7. TraverserType(e)'
  <2>1. worker'[e] \in [Workers[e] -> WorkerStates(e)']
    BY <1>1, <1>2, <1>3 DEF WorkerStates
  <2>2. pending_'[e] \in Seq(DOMAIN fs[e])
    <3>1. pending_[e] \o <<Root>> \in Seq(DOMAIN fs[e])
      BY <1>6, QueueAppend
    <3> QED BY <1>4, <1>6, <3>1
  <2> QED BY <1>0, <1>1, <2>1, <2>2 DEF TraverserType, Objects
<1>8. run'[e] = "running"
  BY <1>0, <1>1 DEF ShapeInv
<1>9. IssuesComplete(e)'
  BY <1>0, <1>1, <1>3
     DEF TraverserInv, IssuesComplete, Issues, Objects, Reported
<1>10. RunningInv(e)'
  <2> SUFFICES ASSUME ~cancellation_event, ~failure_[e]
               PROVE  CountInv(e)' /\ DoneInv(e)' /\ CoverInv(e)'
    BY <1>1 DEF RunningInv
  <2>1. active_[e] = 0 /\ Objects(e) = {}
    BY <1>0, <1>1 DEF TraverserInv, IdleInv
  <2>2. Busy(e)' = {}
    BY <1>3 DEF Busy, InIo
  <2>3. CountInv(e)' /\ DoneInv(e)'
    BY <1>1, <1>3, <2>1, <2>2, FS_EmptySet DEF CountInv, DoneInv
  <2>4. Root \in ToSet(pending_'[e])
    <3>1. ToSet(pending_'[e]) = ToSet(pending_[e]) \cup ToSet(<<Root>>)
      BY <1>4, <1>6, QueueAppend
    <3> QED BY <1>6, <3>1
  <2>5. Reached(e, Root)'
    BY <2>4 DEF Reached
  <2>6. Objects(e)' = {}
    BY <1>1, <2>1 DEF Objects
  <2> QED BY <2>3, <2>5, <2>6 DEF CoverInv
<1>11. TraverserInv(e)'
  BY <1>7, <1>8, <1>9, <1>10 DEF TraverserInv, IdleInv, InventoryInv
<1>12. \A x \in Endpoints \ {e} :
          UNCHANGED <<pending_[x], active_[x], failure_[x], inventory[x],
                      run[x], worker[x]>>
  BY <1>0, <1>1, <1>2, <1>4 DEF ShapeInv
<1> QED BY <1>1, <1>5, <1>11, <1>12, ElsewhereUnchanged

\* It returns: with an inventory if nothing has stopped it.
LEMMA RunEnds ==
    ASSUME TraversalInv, NEW e \in Endpoints, RunReturns(e)
    PROVE  TraversalInv'
<1>0. ShapeInv /\ TraverserInv(e) /\ TraverserType(e)
  BY DEF TraversalInv, TraverserInv
<1>1. /\ UNCHANGED <<fs, cancellation_event, pending_, active_, failure_,
                     inventory, worker>>
      /\ run[e] = "running"
      /\ \A w \in Workers[e] : worker[e][w].pc = "done"
      /\ run' = [run EXCEPT ![e] = IF failure_[e] THEN "threw"
                                   ELSE IF cancellation_event THEN "nullopt"
                                   ELSE "inventory"]
  BY DEF RunReturns
<1>2. ShapeInv'
  BY <1>0, <1>1 DEF ShapeInv
<1>3. TraverserType(e)'
  BY <1>0, <1>1 DEF TraverserType, WorkerStates, Objects
<1>4. run'[e] = IF failure_[e] THEN "threw"
                ELSE IF cancellation_event THEN "nullopt" ELSE "inventory"
  BY <1>0, <1>1 DEF ShapeInv
<1>5. IssuesComplete(e)'
  BY <1>0, <1>1 DEF TraverserInv, IssuesComplete, Issues, Objects, Reported
<1>6. InventoryInv(e)'
  <2> SUFFICES ASSUME run'[e] = "inventory" PROVE Inventory(e)'
    BY DEF InventoryInv
  <2>1. ~failure_[e] /\ ~cancellation_event
    BY <1>4
  <2>2. CoverInv(e) /\ DoneInv(e)
    BY <1>0, <1>1, <2>1 DEF TraverserInv, RunningInv
  <2>3. pending_[e] = <<>>
    BY <1>1, <2>2, WorkersAssumption DEF DoneInv
  <2>4. \A q : Reached(e, q) => q \in Objects(e)
    BY <1>1, <2>3, QueueEmpty DEF Reached
  <2>5. \A p, q : ~ToBeListed(e, p, q) /\ ~Listing(e, p)
    BY <1>1 DEF ToBeListed, Listing
  <2>6. Inventory(e)
    BY <1>1, <2>2, <2>4, <2>5 DEF Inventory, CoverInv
  <2> QED BY <1>1, <2>6 DEF Inventory, Objects, Incomplete, Children, Unlisted,
                            Reported, IsDirectory
<1>7. TraverserInv(e)'
  BY <1>3, <1>4, <1>5, <1>6 DEF TraverserInv, IdleInv, RunningInv
<1>8. \A x \in Endpoints \ {e} :
         UNCHANGED <<pending_[x], active_[x], failure_[x], inventory[x],
                     run[x], worker[x]>>
  BY <1>0, <1>1 DEF ShapeInv
<1> QED BY <1>1, <1>2, <1>7, <1>8, ElsewhereUnchanged

\* Take.
LEMMA TakeKeeps ==
    ASSUME TraversalInv, NEW e \in Endpoints, NEW w \in Workers[e], Take(e, w)
    PROVE  TraversalInv'
<1>1. worker[e][w].pc \in {"start", "take"}
  BY DEF Take
<1>2. CASE /\ WorkerReturns(e, w)
           /\ \/ cancellation_event
              \/ failure_[e]
              \/ pending_[e] = <<>> /\ active_[e] = 0
  <2>1. /\ Goto(e, w, "done")
        /\ UNCHANGED <<fs, cancellation_event, pending_, active_, failure_,
                       inventory, run>>
    BY <1>2 DEF WorkerReturns
  <2> QED BY <1>1, <1>2, <2>1, WorkerEnds
<1>3. CASE /\ pending_[e] # <<>>
           /\ worker' = [worker EXCEPT ![e][w] =
                           [pc |-> "open", path |-> Head(pending_[e]),
                            entries |-> {}]]
           /\ pending_' = [pending_ EXCEPT ![e] = Tail(@)]
           /\ active_' = [active_ EXCEPT ![e] = @ + 1]
           /\ UNCHANGED <<fs, cancellation_event, failure_, inventory, run>>
  BY <1>1, <1>3, WorkerTakes
<1> QED BY <1>2, <1>3 DEF Take

\* WorkerThrows.
LEMMA ThrowKeeps ==
    ASSUME TraversalInv, NEW e \in Endpoints, NEW w \in Workers[e],
           WorkerThrows(e, w)
    PROVE  TraversalInv'
<1>1. /\ worker[e][w].pc \notin {"unborn", "done"}
      /\ Goto(e, w, "done")
      /\ UNCHANGED <<fs, cancellation_event, pending_, active_, inventory,
                     run>>
      /\ failure_' = [failure_ EXCEPT ![e] = TRUE]
  BY DEF WorkerThrows
<1>2. failure_'[e]
  <2>1. DOMAIN failure_ = Endpoints
    BY DEF TraversalInv, ShapeInv
  <2> QED BY <1>1, <2>1
<1> QED BY <1>1, <1>2, WorkerEnds

\* A worker that finds the event signaled after a call.
LEMMA CancelledKeeps ==
    ASSUME TraversalInv, NEW e \in Endpoints, NEW w \in Workers[e],
           worker[e][w].pc \in InIo, cancellation_event, WorkerReturns(e, w)
    PROVE  TraversalInv'
<1>1. /\ Goto(e, w, "done")
      /\ worker[e][w].pc \notin {"unborn", "done"}
      /\ UNCHANGED <<fs, cancellation_event, pending_, active_, failure_,
                     inventory, run>>
  BY DEF WorkerReturns, InIo
<1> QED BY <1>1, WorkerEnds

\* An issue that is committed is on record.
LEMMA CommitReports ==
    ASSUME NEW e, NEW p, NEW operation, NEW error,
           Issue(p, operation, error) \in inventory'[e].issues
    PROVE  Reported(e, p, operation)'
BY DEF Reported, Issue

\* TryOpenFilesystemObject returns.
LEMMA OpenKeeps ==
    ASSUME IInv, OwnInv, TraversalInv, NEW e \in Endpoints,
           NEW w \in Workers[e], OpenReturns(e, w)
    PROVE  TraversalInv'
<1> PICK p : p = worker[e][w].path
  OBVIOUS
<1>0. worker[e][w].pc = "open" /\ worker[e][w].pc \in InIo
  BY DEF OpenReturns, InIo
<1>1. CASE cancellation_event
  <2>1. WorkerReturns(e, w)
    BY <1>1 DEF OpenReturns
  <2> QED BY <1>0, <1>1, <2>1, CancelledKeeps
<1>2. CASE ~cancellation_event
  <2>1. PICK error \in IoResults(<<e, w>>, fs[e][p].open) :
           /\ \/ /\ error # "none"
                 /\ Commit(e, p, {Issue(p, "OpenObject", error)},
                           IF IsDirectory(e, p) THEN {p} ELSE {})
                 /\ Complete(e, w)
              \/ /\ error = "none"
                 /\ Cached(e, p)
                 /\ Commit(e, p, {}, {})
                 /\ Complete(e, w)
              \/ /\ error = "none"
                 /\ Goto(e, w, "streams")
                 /\ UNCHANGED <<inventory, active_>>
           /\ UNCHANGED <<fs, cancellation_event, pending_, failure_, run>>
    BY <1>2 DEF OpenReturns
  <2>2. error = fs[e][p].open
    BY <1>2, <2>1, UninterruptedResult
  <2>3. InventoryShape /\ TraverserInv(e) /\ TraverserType(e)
    BY DEF OwnInv, TraversalInv, TraverserInv
  <2>4. CASE error # "none" /\ Complete(e, w)
             /\ Commit(e, p, {Issue(p, "OpenObject", error)},
                       IF IsDirectory(e, p) THEN {p} ELSE {})
    <3> DEFINE more == {Issue(p, "OpenObject", error)}
               incomplete == IF IsDirectory(e, p) THEN {p} ELSE {}
    <3>1. /\ \A x \in Endpoints \ {e} : inventory'[x] = inventory[x]
          /\ Objects(e)' = Objects(e) \cup {p}
          /\ inventory'[e].issues = inventory[e].issues \cup more
          /\ Incomplete(e)' = Incomplete(e) \cup incomplete
      <4>1. Commit(e, p, more, incomplete)
        BY <2>4
      <4> HIDE DEF more, incomplete
      <4> QED BY <2>3, <4>1, CommitEffect
    <3>2. Issues(e, p)'
      <4>1. Reported(e, p, "OpenObject")'
        BY <3>1, CommitReports
      <4> QED BY <2>1, <2>2, <2>4, <4>1 DEF Issues
    <3>3. ~Unlisted(e, p)
      BY <2>2, <2>4 DEF Unlisted
    <3>4. ~IsDirectory(e, p) \/ p \in Incomplete(e)'
      BY <3>1
    <3> HIDE DEF more, incomplete
    <3> QED BY <1>0, <2>1, <2>4, <3>1, <3>2, <3>3, <3>4, WorkerCompletes
  <2>5. CASE error = "none" /\ Cached(e, p) /\ Complete(e, w)
             /\ Commit(e, p, {}, {})
    <3>1. /\ \A x \in Endpoints \ {e} : inventory'[x] = inventory[x]
          /\ Objects(e)' = Objects(e) \cup {p}
          /\ inventory'[e].issues = inventory[e].issues
          /\ Incomplete(e)' = Incomplete(e)
      <4> DEFINE none == {}
      <4>1. Commit(e, p, none, none)
        BY <2>5
      <4> HIDE DEF none
      <4>2. /\ \A x \in Endpoints \ {e} : inventory'[x] = inventory[x]
            /\ Objects(e)' = Objects(e) \cup {p}
            /\ inventory'[e].issues = inventory[e].issues \cup none
            /\ Incomplete(e)' = Incomplete(e) \cup none
        BY <2>3, <4>1, CommitEffect
      <4> QED BY <4>2 DEF none
    <3>2. PICK q \in Objects(e) :
             fs[e][q].identity = fs[e][p].identity /\ StreamsComplete(e, q)
      BY <2>5 DEF Cached, Objects
    <3>3. fs[e][q] = fs[e][p]
      <4>1. p \in DOMAIN fs[e] /\ q \in DOMAIN fs[e]
        <5>1. worker[e][w] \in WorkerStates(e)
          BY <2>3 DEF TraverserType
        <5> QED BY <2>3, <5>1 DEF TraverserType, WorkerStates
      <4>2. fs[e][p].identity # 0
        BY <2>5 DEF Cached
      <4> QED BY <3>2, <4>1, <4>2, VolumeFacts DEF TraversalInv, ShapeInv
    <3>4. fs[e][p].query = "none"
      <4>1. Issues(e, q)
        BY <2>3 DEF TraverserInv, IssuesComplete
      <4>2. ~Reported(e, q, "QueryStreams")
        BY <3>2 DEF StreamsComplete, Reported
      <4> QED BY <2>2, <2>5, <3>3, <4>1, <4>2 DEF Issues
    <3>5. Issues(e, p)'
      BY <2>1, <2>2, <2>5, <3>4 DEF Issues
    <3>6. ~IsDirectory(e, p) /\ ~Unlisted(e, p)
      BY <2>5 DEF Cached, Unlisted
    <3> QED BY <1>0, <2>1, <2>5, <3>1, <3>5, <3>6, WorkerCompletes
  <2>6. CASE /\ error = "none"
             /\ Goto(e, w, "streams")
             /\ UNCHANGED <<inventory, active_>>
    BY <1>0, <2>1, <2>2, <2>6, WorkerOpened
  <2> QED BY <2>1, <2>4, <2>5, <2>6
<1> QED BY <1>1, <1>2

\* QueryObjectStreams returns.
LEMMA StreamsKeep ==
    ASSUME IInv, OwnInv, TraversalInv, NEW e \in Endpoints,
           NEW w \in Workers[e], StreamsReturn(e, w)
    PROVE  TraversalInv'
<1> PICK p : p = worker[e][w].path
  OBVIOUS
<1>0. worker[e][w].pc = "streams" /\ worker[e][w].pc \in InIo
  BY DEF StreamsReturn, InIo
<1>1. CASE cancellation_event
  <2>1. WorkerReturns(e, w)
    BY <1>1 DEF StreamsReturn
  <2> QED BY <1>0, <1>1, <2>1, CancelledKeeps
<1>2. CASE ~cancellation_event
  <2>1. PICK error \in IoResults(<<e, w>>, fs[e][p].query) :
           /\ Commit(e, p, IF error = "none" THEN {}
                           ELSE {Issue(p, "QueryStreams", error)}, {})
           /\ \/ /\ ~IsDirectory(e, p)
                 /\ Complete(e, w)
              \/ /\ worker' = [worker EXCEPT ![e][w] =
                      [pc |-> "list", path |-> p,
                       entries |-> {q \in DOMAIN fs[e] \ {Root} :
                                       Parent[q] = p}]]
                 /\ UNCHANGED active_
           /\ UNCHANGED <<fs, cancellation_event, pending_, failure_, run>>
    BY <1>2 DEF StreamsReturn
  <2>2. error = fs[e][p].query
    BY <1>2, <2>1, UninterruptedResult
  <2> DEFINE more == IF error = "none" THEN {}
                     ELSE {Issue(p, "QueryStreams", error)}
  <2>3. /\ \A x \in Endpoints \ {e} : inventory'[x] = inventory[x]
        /\ Objects(e)' = Objects(e) \cup {p}
        /\ inventory'[e].issues = inventory[e].issues \cup more
        /\ Incomplete(e)' = Incomplete(e)
    <3> DEFINE none == {}
    <3>1. Commit(e, p, more, none) /\ InventoryShape
      BY <2>1 DEF OwnInv
    <3> HIDE DEF more, none
    <3>2. /\ \A x \in Endpoints \ {e} : inventory'[x] = inventory[x]
          /\ Objects(e)' = Objects(e) \cup {p}
          /\ inventory'[e].issues = inventory[e].issues \cup more
          /\ Incomplete(e)' = Incomplete(e) \cup none
      BY <3>1, CommitEffect
    <3> QED BY <3>2 DEF none
  <2>4. Issues(e, p)'
    <3>0. fs[e][p].open = "none"
      BY <1>0 DEF TraversalInv, TraverserInv, IssuesComplete
    <3>1. CASE error = "none"
      BY <2>1, <2>2, <2>3, <3>0, <3>1 DEF Issues
    <3>2. CASE error # "none"
      <4>1. Reported(e, p, "QueryStreams")'
        BY <2>3, <3>2, CommitReports
      <4> QED BY <2>1, <3>0, <4>1 DEF Issues
    <3> QED BY <3>1, <3>2
  <2> HIDE DEF more
  <2>5. CASE ~IsDirectory(e, p) /\ Complete(e, w)
    <3>1. ~Unlisted(e, p)
      BY <2>5 DEF Unlisted
    <3> QED BY <1>0, <2>1, <2>3, <2>4, <2>5, <3>1, WorkerCompletes
  <2>6. CASE /\ worker' = [worker EXCEPT ![e][w] =
                   [pc |-> "list", path |-> p,
                    entries |-> {q \in DOMAIN fs[e] \ {Root} :
                                    Parent[q] = p}]]
             /\ UNCHANGED active_
    BY <1>0, <2>1, <2>3, <2>4, <2>6, WorkerLists
  <2> QED BY <2>1, <2>5, <2>6
<1> QED BY <1>1, <1>2

\* A call of EnumerateDirectory returns.
LEMMA ListKeeps ==
    ASSUME IInv, OwnInv, TraversalInv, NEW e \in Endpoints,
           NEW w \in Workers[e], ListReturns(e, w)
    PROVE  TraversalInv'
<1> PICK p : p = worker[e][w].path
  OBVIOUS
<1>0. /\ worker[e][w].pc = "list"
      /\ worker[e][w].pc \in InIo
      /\ ShapeInv
      /\ TraverserType(e)
  BY DEF ListReturns, InIo, TraversalInv, TraverserInv
<1>1. CASE cancellation_event
  <2>1. WorkerReturns(e, w)
    BY <1>1 DEF ListReturns
  <2> QED BY <1>0, <1>1, <2>1, CancelledKeeps
<1>2. CASE ~cancellation_event
  <2>0. UNCHANGED <<fs, cancellation_event, failure_, run>>
    BY <1>2 DEF ListReturns
  <2>1. CASE \E batch \in Batches(worker[e][w].entries) :
                /\ \E tasks \in InOrder(batch, <) : Queue(e, tasks)
                /\ worker' = [worker EXCEPT ![e][w].entries = @ \ batch]
                /\ UNCHANGED <<inventory, active_>>
    <3>1. PICK batch \in SUBSET worker[e][w].entries :
             /\ \E tasks \in [1 .. Cardinality(batch) -> batch] :
                   /\ \A x \in batch : \E i \in DOMAIN tasks : tasks[i] = x
                   /\ Queue(e, tasks)
             /\ worker' = [worker EXCEPT ![e][w].entries = @ \ batch]
             /\ UNCHANGED <<inventory, active_>>
      BY <2>1 DEF Batches, InOrder
    <3>2. PICK tasks \in [1 .. Cardinality(batch) -> batch] :
             /\ \A x \in batch : \E i \in DOMAIN tasks : tasks[i] = x
             /\ Queue(e, tasks)
      BY <3>1
    <3>3. IsFiniteSet(batch)
      <4>1. worker[e][w] \in WorkerStates(e)
        BY <1>0 DEF TraverserType
      <4>2. batch \subseteq DOMAIN fs[e]
        BY <4>1 DEF WorkerStates
      <4>3. IsFiniteSet(DOMAIN fs[e])
        BY <1>0, VolumeFacts DEF ShapeInv
      <4> QED BY <4>2, <4>3, FS_Subset
    <3>4. tasks \in Seq(batch)
      BY <3>2, <3>3, InOrderIsSeq
    <3>5. batch \subseteq ToSet(tasks)
      BY <3>2 DEF ToSet
    <3>6. Queue(e, tasks)
      BY <3>2
    <3> QED BY <1>0, <1>2, <2>0, <3>1, <3>4, <3>5, <3>6, WorkerQueues
  <2>2. CASE /\ worker[e][w].entries = {}
             /\ fs[e][p].list = "none"
             /\ Complete(e, w)
             /\ UNCHANGED <<pending_, inventory>>
    <3>1. ~Unlisted(e, p)
      BY <2>2 DEF Unlisted
    <3>2. Objects(e)' = Objects(e) /\ Incomplete(e)' = Incomplete(e)
      BY <2>2 DEF Objects, Incomplete
    <3> QED BY <1>0, <2>0, <2>2, <3>1, <3>2, WorkerCompletes
  <2>3. ASSUME NEW error \in IoResults(<<e, w>>, fs[e][p].list) \ {"none"},
               Commit(e, p, {Issue(p, "QueryDirectory", error)}, {p}),
               Complete(e, w), UNCHANGED pending_
        PROVE  TraversalInv'
    <3> DEFINE more == {Issue(p, "QueryDirectory", error)}
    <3>1. /\ \A x \in Endpoints \ {e} : inventory'[x] = inventory[x]
          /\ Objects(e)' = Objects(e) \cup {p}
          /\ inventory'[e].issues = inventory[e].issues \cup more
          /\ Incomplete(e)' = Incomplete(e) \cup {p}
      <4>1. Commit(e, p, more, {p}) /\ InventoryShape
        BY <2>3 DEF OwnInv
      <4> HIDE DEF more
      <4> QED BY <4>1, CommitEffect
    <3>2. Reported(e, p, "QueryDirectory")'
      BY <3>1, CommitReports
    <3> HIDE DEF more
    <3>3. p \in Objects(e)
      BY <1>0 DEF TraversalInv, TraverserInv, IssuesComplete
    <3> QED BY <1>0, <2>0, <2>3, <3>1, <3>2, <3>3, WorkerCompletes
  <2> QED BY <1>2, <2>1, <2>2, <2>3 DEF ListReturns
<1> QED BY <1>1, <1>2

-----------------------------------------------------------------------------
(* The traversals are correct.                                             *)

\* Init establishes it.
LEMMA InitTraversal == Init => TraversalInv
<1> SUFFICES ASSUME Init PROVE TraversalInv
  OBVIOUS
<1>1. TraversalInit
  BY DEF Init
<1>2. ShapeInv
  BY <1>1 DEF TraversalInit, ShapeInv
<1>3. ASSUME NEW e \in Endpoints PROVE TraverserInv(e)
  <2>1. /\ pending_[e] = <<>>
        /\ active_[e] = 0
        /\ run[e] = "idle"
        /\ Objects(e) = {}
        /\ worker[e] = [w \in Workers[e] |->
                          [pc |-> "unborn", path |-> Root, entries |-> {}]]
    BY <1>1 DEF TraversalInit, Objects
  <2>2. Root \in DOMAIN fs[e]
    BY <1>2, VolumeFacts DEF ShapeInv
  <2>3. \A w \in Workers[e] :
           worker[e][w] \in WorkerStates(e) /\ worker[e][w].pc = "unborn"
    BY <2>1, <2>2 DEF WorkerStates
  <2>4. TraverserType(e)
    <3>1. pending_[e] \in Seq(DOMAIN fs[e])
      BY <2>1
    <3>2. worker[e] \in [Workers[e] -> WorkerStates(e)]
      <4>1. worker[e] = [w \in Workers[e] |-> worker[e][w]]
        BY <2>1
      <4> QED BY <2>3, <4>1
    <3>3. active_[e] \in Int /\ Objects(e) \subseteq DOMAIN fs[e]
      BY <2>1
    <3> QED BY <3>1, <3>2, <3>3 DEF TraverserType
  <2>5. IdleInv(e) /\ RunningInv(e) /\ InventoryInv(e) /\ IssuesComplete(e)
    BY <2>1, <2>3 DEF IdleInv, RunningInv, InventoryInv, IssuesComplete
  <2> QED BY <2>4, <2>5 DEF TraverserInv
<1> QED BY <1>2, <1>3 DEF TraversalInv

\* A step of anybody else.
LEMMA TraversalUnchanged ==
    ASSUME TraversalInv, UNCHANGED <<fs, traverserVars>>,
           cancellation_event => cancellation_event'
    PROVE  TraversalInv'
<1>1. ShapeInv'
  BY DEF TraversalInv, ShapeInv, traverserVars
<1>2. ASSUME NEW e \in Endpoints PROVE TraverserInv(e)'
  <2>1. UNCHANGED <<pending_[e], active_[e], failure_[e], inventory[e], run[e],
                    worker[e]>>
    BY DEF traverserVars
  <2> QED BY <2>1, TraverserUnchanged DEF TraversalInv
<1> QED BY <1>1, <1>2 DEF TraversalInv

\* Who changes what of the traversals.
LEMMA OthersKeepTraversal ==
    ASSUME NEW w, \/ JobProgress /\ ~\E e \in Endpoints : RunTraversal(e)
                  \/ AttachReturns
                  \/ ComparerProgress(w) \/ ComparerIoReturns(w)
                  \/ ComparerThrows(w)
                  \/ RequestCancellation \/ CancelPending
                  \/ Terminated \/ UNCHANGED vars
    PROVE  /\ UNCHANGED <<fs, traverserVars>>
           /\ cancellation_event => cancellation_event'
<1>1. CASE JobProgress /\ ~\E e \in Endpoints : RunTraversal(e)
  <2>1. CASE BeginJob \/ AttachReal \/ CleanupFailedAttachment
    BY <2>1 DEF BeginJob, AttachReal, CleanupFailedAttachment
  <2>2. CASE \/ Detach \/ StartTraversal \/ Traversed \/ BuildComparisonPlan
             \/ BuildComparisonPlanCancelled \/ StartComparison
             \/ StartComparisonFails \/ Compared \/ PrintFinalResults
    <3>1. UNCHANGED traversalVars
      BY <2>2 DEF Detach, StartTraversal, Traversed, BuildComparisonPlan,
            BuildComparisonPlanCancelled, StartComparison,
            StartComparisonFails, Compared, PrintFinalResults
    <3> QED BY <3>1 DEF traversalVars
  <2> QED BY <1>1, <2>1, <2>2 DEF JobProgress
<1>2. CASE AttachReturns
  BY <1>2 DEF AttachReturns, Attach, AttachThrows, PreparationThrows
<1>3. CASE ComparerProgress(w) \/ ComparerIoReturns(w) \/ ComparerThrows(w)
  <2>1. CASE RegisterComparer(w) \/ ComparerReturns(w)
    BY <2>1 DEF RegisterComparer, ComparerReturns
  <2>2. CASE ComparerThrows(w)
    BY <2>2 DEF ComparerThrows, traversalVars
  <2>3. CASE NextTask(w) /\ ~ComparerReturns(w)
    BY <2>3 DEF NextTask, ComparerUnchanged, traversalVars
  <2>4. CASE ComparerIoReturns(w) /\ ~ComparerReturns(w)
    BY <2>4 DEF ComparerIoReturns, OpenStreamReturns, ReadReturns,
          CompareChunk, ComparerUnchanged, traversalVars
  <2> QED BY <1>3, <2>1, <2>2, <2>3, <2>4 DEF ComparerProgress
<1>4. CASE RequestCancellation \/ CancelPending
  BY <1>4 DEF RequestCancellation, CancelPending
<1>5. CASE Terminated \/ UNCHANGED vars
  BY <1>5 DEF Terminated, vars, traversalVars
<1> QED BY <1>1, <1>2, <1>3, <1>4, <1>5

\* Every step preserves it.
LEMMA NextTraversal ==
    IInv /\ OwnInv /\ TraversalInv /\ [Next]_vars => TraversalInv'
<1> SUFFICES ASSUME IInv, OwnInv, TraversalInv, [Next]_vars PROVE TraversalInv'
    OBVIOUS
<1>1. CASE \/ JobProgress /\ ~\E e \in Endpoints : RunTraversal(e)
           \/ AttachReturns \/ RequestCancellation \/ CancelPending
           \/ Terminated \/ UNCHANGED vars
  BY <1>1, OthersKeepTraversal, TraversalUnchanged
<1>2. ASSUME NEW w \in ComparisonWorkers,
             ComparerProgress(w) \/ ComparerIoReturns(w) \/ ComparerThrows(w)
      PROVE  TraversalInv'
  BY <1>2, OthersKeepTraversal, TraversalUnchanged
<1>3. ASSUME NEW e \in Endpoints, RunTraversal(e) PROVE TraversalInv'
  BY <1>3, RunStarts DEF RunTraversal
<1>4. ASSUME NEW e \in Endpoints, TraverserProgress(e) PROVE TraversalInv'
  BY <1>4, TakeKeeps, RunEnds DEF TraverserProgress, TraverserStep
<1>5. ASSUME NEW e \in Endpoints, NEW w \in Workers[e],
             TraverserIoReturns(e, w) \/ TraverserFails(e, w)
      PROVE  TraversalInv'
  BY <1>5, OpenKeeps, StreamsKeep, ListKeeps, ThrowKeeps
     DEF TraverserIoReturns, TraverserIo, TraverserFails
<1> QED BY <1>1, <1>2, <1>3, <1>4, <1>5 DEF Next

-----------------------------------------------------------------------------
(* The comparison: every task is done.                                     *)

\* The job before the comparison, and while its workers compare.
Early == {"begin", "attach_synthetic", "attached", "attach_real", "compare",
          "traverse", "plan", "start_workers"}

Planned == job \in {"start_workers", "compare_contents"} \/ comparison_complete

OpenFailed(p, stream) ==
    OperationComparison(p, stream, "OpenStream",
                        Failure(fs["synthetic"][p].reopen),
                        Failure(fs["real"][p].reopen))
        \in operation_comparisons

CanReopen(p) == \A e \in Endpoints : fs[e][p].reopen = "none"

\* What has been found out about a task is on record.
TaskReported(t) ==
    /\ ~CanReopen(t.path) => OpenFailed(t.path, t.stream)
    /\ CanReopen(t.path) =>
          /\ \/ \A e \in Endpoints : fs[e][t.path].read = "none"
             \/ OperationComparison(t.path, t.stream, "ReadStream",
                                    Failure(fs["synthetic"][t.path].read),
                                    Failure(fs["real"][t.path].read))
                   \in operation_comparisons
          /\ fs["synthetic"][t.path].read = fs["real"][t.path].read
                /\ fs["real"][t.path].read \in {"none", "short"} =>
             \/ SameChunk(t, fs["real"][t.path].read)
             \/ [kind |-> "StreamContents", path |-> t.path,
                 stream |-> t.stream] \in mismatches

\* A comparison worker has opened the stream that it keeps, or reported that
\* this failed.
ComparerShape ==
    comparer = [w \in ComparisonWorkers |->
                  [pc |-> comparer[w].pc, task |-> comparer[w].task,
                   stream |-> comparer[w].stream,
                   readable |-> comparer[w].readable,
                   accepted |-> comparer[w].accepted]]

StreamKept(w) ==
    LET stream == comparer[w].stream
    IN  comparer[w].pc = "next" /\ stream # <<>> =>
            IF comparer[w].readable THEN CanReopen(stream[1])
            ELSE ~CanReopen(stream[1]) /\ OpenFailed(stream[1], stream[2])

Comparing(w) == comparer[w].pc \in {"open", "read"}

TaskKept(w) ==
    Comparing(w) =>
        /\ comparer[w].stream = StreamKey(Task(w))
        /\ comparer[w].pc = "read" =>
              comparer[w].readable /\ CanReopen(Task(w).path)

ComparersInv ==
    /\ ComparerShape
    /\ \A w \in ComparisonWorkers :
          /\ comparer[w].pc \in {"register", "next", "open", "read"} =>
                job = "compare_contents"
          /\ comparer[w].pc = "register" => comparer[w].stream = <<>>
          /\ StreamKept(w)
          /\ TaskKept(w)

\* The completed tasks are among those that were taken, less those that are
\* being compared.
Taken == 1 .. (next_task - 1)

CompletedInv ==
    \E D \in SUBSET Taken :
        /\ IsFiniteSet(D)
        /\ Cardinality(D) = completed_tasks
        /\ \A i \in D : TaskReported(plan.tasks[i])
        /\ \A w \in ComparisonWorkers :
              Comparing(w) => comparer[w].task \in Taken \ D

TasksInv ==
    /\ next_task \in Nat \ {0}
    /\ next_task - 1 <= Len(plan.tasks)
    /\ \A v, w \in ComparisonWorkers :
          /\ Comparing(v) /\ Comparing(w)
          /\ comparer[v].task = comparer[w].task
          => v = w
    /\ CompletedInv

EarlyInv ==
    job \in Early =>
        /\ next_task = 1
        /\ completed_tasks = 0
        /\ \A w \in ComparisonWorkers :
              comparer[w].stream = <<>> /\ comparer[w].pc = "unborn"

\* The plan is the one of the two inventories, and its records are kept.
PlanInv ==
    /\ job = "plan" \/ Planned =>
          \A e \in Endpoints : run[e] = "inventory"
    /\ Planned =>
          /\ PlanRecords.mismatches \subseteq mismatches
          /\ PlanRecords.comparisons \subseteq operation_comparisons
          /\ plan.available = Cardinality(ReadTasks)
          /\ plan.tasks \in Seq(ReadTasks)
          /\ Len(plan.tasks) = Cardinality(ToSet(plan.tasks))

CompleteInv ==
    comparison_complete =>
        /\ job \in {"detach", "finish", "ready"}
        /\ ~ComparisonSurfaceIncomplete
        /\ \A i \in DOMAIN plan.tasks : TaskReported(plan.tasks[i])

ComparisonInv ==
    /\ ComparersInv
    /\ EarlyInv
    /\ PlanInv
    /\ job = "compare_contents" => TasksInv
    /\ CompleteInv

-----------------------------------------------------------------------------
(* The two inventories side by side.                                       *)

\* What BuildComparisonPlan computes depends on the volumes and the
\* inventories only.
LEMMA PlanIsStable ==
    ASSUME UNCHANGED <<fs, inventory>>
    PROVE  PlanRecords' = PlanRecords /\ ReadTasks' = ReadTasks
<1>1. InBoth' = InBoth
  BY DEF InBoth
<1>2. \A e, p : StreamsComplete(e, p)' <=> StreamsComplete(e, p)
  BY DEF StreamsComplete
<1>3. \A p : /\ SameKind(p)' <=> SameKind(p)
             /\ PairedIdentity(p)' = PairedIdentity(p)
             /\ SameLength(p)' = SameLength(p)
  BY DEF SameKind, PairedIdentity, SameLength, StreamsOf
<1>4. StreamPairs' = StreamPairs
  BY <1>1, <1>2, <1>3 DEF StreamPairs
<1>5. \A p : CompareContents(p)' <=> CompareContents(p)
  BY <1>3, <1>4 DEF CompareContents
<1>6. ReadTasks' = ReadTasks
  <2>1. {q \in StreamPairs : CompareContents(q)}'
           = {q \in StreamPairs : CompareContents(q)}
    BY <1>4, <1>5
  <2> QED BY <1>3, <2>1 DEF ReadTasks, StreamsOf
<1>7. \A e, p, o : FailureOf(e, p, o)' = FailureOf(e, p, o)
  BY DEF FailureOf
<1>8. \A p : ComparedOperations(p)' = ComparedOperations(p)
  BY <1>7 DEF ComparedOperations, BothOpened, IsDirectory
<1>9. InventoryComparisons' = InventoryComparisons
  BY <1>1, <1>7, <1>8 DEF InventoryComparisons
<1>10. MissingObjects' = MissingObjects
  BY DEF MissingObjects, IsBelowIncompleteDirectory
<1>11. TypeMismatches' = TypeMismatches
  BY <1>1, <1>3 DEF TypeMismatches
<1>12. StreamMismatches' = StreamMismatches
  BY <1>4 DEF StreamMismatches, StreamsOf
<1> QED BY <1>6, <1>9, <1>10, <1>11, <1>12 DEF PlanRecords

\* The failures in an inventory are those of the volume, for the calls that
\* are made on an object.
LEMMA FailuresAreExact ==
    ASSUME OwnInv, TraversalInv, NEW e \in Endpoints, NEW p \in Objects(e)
    PROVE  /\ FailureOf(e, p, "OpenObject") = OwnFailure(e, p, "OpenObject")
           /\ fs[e][p].open = "none" =>
                 FailureOf(e, p, "QueryStreams")
                    = OwnFailure(e, p, "QueryStreams")
           /\ run[e] = "inventory" /\ fs[e][p].open = "none"
                 /\ IsDirectory(e, p) =>
                 FailureOf(e, p, "QueryDirectory")
                    = OwnFailure(e, p, "QueryDirectory")
           /\ StreamsComplete(e, p) <=>
                 fs[e][p].open = "none" /\ fs[e][p].query = "none"
<1>1. ASSUME NEW o PROVE FailureOf(e, p, o) \subseteq OwnFailure(e, p, o)
  BY DEF FailureOf, OwnInv, IssuesInv
<1>2. ASSUME NEW o, Reported(e, p, o)
      PROVE  \E f : f \in FailureOf(e, p, o)
  BY <1>2 DEF Reported, FailureOf
<1>3. ASSUME NEW o, NEW own, OwnFailure(e, p, o) = Failure(own),
             own # "none" => Reported(e, p, o)
      PROVE  FailureOf(e, p, o) = OwnFailure(e, p, o)
  <2>1. CASE own = "none"
    BY <1>1, <1>3, <2>1 DEF Failure
  <2>2. CASE own # "none"
    <3>1. PICK f : f \in FailureOf(e, p, o)
      BY <1>2, <1>3, <2>2
    <3>2. OwnFailure(e, p, o) = {own}
      BY <1>3, <2>2 DEF Failure
    <3> QED BY <1>1, <3>1, <3>2
  <2> QED BY <2>1, <2>2
<1>4. Issues(e, p)
  BY DEF TraversalInv, TraverserInv, IssuesComplete
<1>5. FailureOf(e, p, "OpenObject") = OwnFailure(e, p, "OpenObject")
  <2>1. OwnFailure(e, p, "OpenObject") = Failure(fs[e][p].open)
    BY OwnFailureIs
  <2> QED BY <1>3, <1>4, <2>1 DEF Issues
<1>6. ASSUME fs[e][p].open = "none"
      PROVE  FailureOf(e, p, "QueryStreams") = OwnFailure(e, p, "QueryStreams")
  <2>1. OwnFailure(e, p, "QueryStreams") = Failure(fs[e][p].query)
    BY OwnFailureIs
  <2> QED BY <1>3, <1>4, <1>6, <2>1 DEF Issues
<1>7. ASSUME run[e] = "inventory", fs[e][p].open = "none", IsDirectory(e, p)
      PROVE  FailureOf(e, p, "QueryDirectory")
                = OwnFailure(e, p, "QueryDirectory")
  <2>1. OwnFailure(e, p, "QueryDirectory") = Failure(fs[e][p].list)
    BY OwnFailureIs
  <2>2. Inventory(e)
    BY <1>7 DEF TraversalInv, TraverserInv, InventoryInv
  <2>3. fs[e][p].list # "none" => Reported(e, p, "QueryDirectory")
    BY <1>7, <2>2 DEF Inventory, Unlisted
  <2> QED BY <1>3, <2>1, <2>3
<1>8. ASSUME StreamsComplete(e, p)
      PROVE  fs[e][p].open = "none" /\ fs[e][p].query = "none"
  <2>1. ~Reported(e, p, "OpenObject") /\ ~Reported(e, p, "QueryStreams")
    BY <1>8 DEF StreamsComplete, Reported
  <2> QED BY <1>4, <2>1 DEF Issues
<1>9. ASSUME fs[e][p].open = "none", fs[e][p].query = "none"
      PROVE  StreamsComplete(e, p)
  <2> SUFFICES ASSUME NEW i \in inventory[e].issues, i.path = p,
                      i.operation \in {"OpenObject", "QueryStreams"}
               PROVE  FALSE
    BY DEF StreamsComplete
  <2>1. i.failure \in OwnFailure(e, p, i.operation)
    BY DEF OwnInv, IssuesInv
  <2>2. OwnFailure(e, p, "OpenObject") = {}
    BY <1>9, OwnFailureIs DEF Failure
  <2>3. OwnFailure(e, p, "QueryStreams") = {}
    BY <1>9, OwnFailureIs DEF Failure
  <2> QED BY <2>1, <2>2, <2>3
<1> QED BY <1>5, <1>6, <1>7, <1>8, <1>9

\* The image of a finite set is finite.
LEMMA FiniteImage ==
    ASSUME NEW S, IsFiniteSet(S), NEW f, DOMAIN f = S
    PROVE  IsFiniteSet({f[x] : x \in S})
<1> DEFINE T == {f[x] : x \in S}
           g == [x \in S |-> f[x]]
<1>1. g \in [S -> T]
  OBVIOUS
<1>2. \A t \in T : \E x \in S : g[x] = t
  OBVIOUS
<1>3. g \in Surjection(S, T)
  BY <1>1, <1>2 DEF Surjection
<1> HIDE DEF g, T
<1>4. IsFiniteSet(T)
  BY <1>3, FS_Surjection
<1> QED BY <1>4 DEF T

\* There are finitely many tasks.
LEMMA ReadTasksFinite ==
    ASSUME TraversalInv
    PROVE  IsFiniteSet(ReadTasks)
<1> DEFINE TasksOf(p, name) ==
             {[path |-> p, stream |-> name, chunk |-> c] :
                c \in DOMAIN StreamsOf("synthetic", p)[name]}
           TasksAt(p) == UNION {TasksOf(p, name) : name \in SameLength(p)}
           Pairs == {q \in StreamPairs : CompareContents(q)}
<1>0. fs \in Volumes /\ "synthetic" \in Endpoints
  BY DEF TraversalInv, ShapeInv, Endpoints
<1>1. Pairs \subseteq DOMAIN fs["synthetic"]
  BY <1>0 DEF StreamPairs, InBoth, TraversalInv, TraverserInv, TraverserType,
              Objects
<1>2. IsFiniteSet(Pairs)
  BY <1>0, <1>1, VolumeFacts, FS_Subset
<1>3. ASSUME NEW p \in Pairs, NEW name \in SameLength(p)
      PROVE  IsFiniteSet(TasksOf(p, name))
  <2> DEFINE chunks == DOMAIN StreamsOf("synthetic", p)[name]
             f == [c \in chunks |->
                     [path |-> p, stream |-> name, chunk |-> c]]
  <2>1. /\ Len(StreamsOf("synthetic", p)[name]) \in Nat
        /\ chunks = 1 .. Len(StreamsOf("synthetic", p)[name])
    BY <1>0, <1>1, StreamsAssumption DEF StreamsOf, SameLength
  <2>2. IsFiniteSet(chunks)
    BY <2>1, FS_Interval
  <2>3. TasksOf(p, name) = {f[c] : c \in chunks}
    OBVIOUS
  <2>4. DOMAIN f = chunks
    OBVIOUS
  <2> HIDE DEF f, chunks, TasksOf
  <2> QED BY <2>2, <2>3, <2>4, FiniteImage
<1>4. ASSUME NEW p \in Pairs PROVE IsFiniteSet(TasksAt(p))
  <2> DEFINE names == SameLength(p)
             f == [name \in names |-> TasksOf(p, name)]
             sets == {f[name] : name \in names}
  <2>1. IsFiniteSet(names)
    <3>1. names \subseteq DOMAIN fs["synthetic"][p].streams
      BY DEF SameLength, StreamsOf
    <3>2. IsFiniteSet(DOMAIN fs["synthetic"][p].streams)
      BY <1>0, <1>1, StreamsAssumption
    <3> QED BY <3>1, <3>2, FS_Subset
  <2>2. \A T \in sets : IsFiniteSet(T)
    BY <1>3
  <2>3. TasksAt(p) = UNION sets
    <3>1. sets = {TasksOf(p, name) : name \in SameLength(p)}
      OBVIOUS
    <3> QED BY <3>1
  <2>4. IsFiniteSet(sets)
    <3>1. DOMAIN f = names
      OBVIOUS
    <3> HIDE DEF f, names
    <3> QED BY <2>1, <3>1, FiniteImage
  <2> HIDE DEF sets, TasksAt
  <2> QED BY <2>2, <2>3, <2>4, FS_UNION
<1> DEFINE f == [p \in Pairs |-> TasksAt(p)]
           sets == {f[p] : p \in Pairs}
<1>5. \A T \in sets : IsFiniteSet(T)
  BY <1>4
<1>6. ReadTasks = UNION sets
  <2>1. sets = {TasksAt(p) : p \in Pairs}
    OBVIOUS
  <2>2. ReadTasks = UNION {TasksAt(p) : p \in Pairs}
    BY DEF ReadTasks
  <2> QED BY <2>1, <2>2
<1>7. IsFiniteSet(sets)
  <2>1. DOMAIN f = Pairs
    OBVIOUS
  <2> HIDE DEF f, Pairs
  <2> QED BY <1>2, <2>1, FiniteImage
<1> HIDE DEF sets
<1> QED BY <1>5, <1>6, <1>7, FS_UNION

-----------------------------------------------------------------------------
(* The comparison's steps.                                                 *)

\* The records that are there stay.
RecordsStay ==
    /\ mismatches \subseteq mismatches'
    /\ operation_comparisons \subseteq operation_comparisons'

\* So does what they say about a task.
LEMMA ReportStays ==
    ASSUME UNCHANGED fs, RecordsStay
    PROVE  /\ \A p : CanReopen(p)' <=> CanReopen(p)
           /\ \A p, stream : OpenFailed(p, stream) => OpenFailed(p, stream)'
           /\ \A t : TaskReported(t) => TaskReported(t)'
<1>1. \A p : CanReopen(p)' <=> CanReopen(p)
  BY DEF CanReopen
<1>2. \A p, stream : OpenFailed(p, stream) => OpenFailed(p, stream)'
  BY DEF OpenFailed, RecordsStay, Failure, OperationComparison
<1>3. \A t, error : SameChunk(t, error)' <=> SameChunk(t, error)
  BY DEF SameChunk, Transferred, Chunk, StreamsOf
<1>4. ASSUME NEW t, TaskReported(t) PROVE TaskReported(t)'
  BY <1>1, <1>2, <1>3, <1>4
     DEF TaskReported, RecordsStay, Failure, OperationComparison
<1> QED BY <1>1, <1>2, <1>4

\* A step that leaves the plan and its inventories alone.
LEMMA PlanStays ==
    ASSUME PlanInv, UNCHANGED <<fs, inventory, run, plan>>, RecordsStay,
           Planned' => Planned,
           job' = "plan" => job = "plan" \/ Planned
    PROVE  PlanInv'
BY PlanIsStable DEF PlanInv, RecordsStay

\* A comparison that is complete stays so.
LEMMA CompleteStays ==
    ASSUME CompleteInv, UNCHANGED <<fs, inventory, plan, comparison_complete>>,
           RecordsStay,
           comparison_complete => job' \in {"detach", "finish", "ready"}
    PROVE  CompleteInv'
<1>1. ComparisonSurfaceIncomplete' <=> ComparisonSurfaceIncomplete
  BY DEF ComparisonSurfaceIncomplete
<1>2. \A t : TaskReported(t) => TaskReported(t)'
  BY ReportStays
<1> QED BY <1>1, <1>2 DEF CompleteInv

\* Nothing happens to the workers of the comparison, or to their tasks.
LEMMA ComparersStay ==
    ASSUME ComparersInv, UNCHANGED <<fs, plan, comparer>>, RecordsStay,
           \A w \in ComparisonWorkers :
              comparer[w].pc \in {"register", "next", "open", "read"} =>
                 job' = "compare_contents"
    PROVE  ComparersInv'
<1>1. ASSUME NEW w \in ComparisonWorkers PROVE StreamKept(w)' /\ TaskKept(w)'
  <2>1. StreamKept(w)'
    BY ReportStays DEF ComparersInv, StreamKept
  <2>2. TaskKept(w)'
    BY ReportStays DEF ComparersInv, TaskKept, Comparing, StreamKey, Task
  <2> QED BY <2>1, <2>2
<1> QED BY <1>1 DEF ComparersInv, ComparerShape

\* The same for the tasks.
LEMMA TasksStay ==
    ASSUME TasksInv, RecordsStay,
           UNCHANGED <<fs, plan, comparer, next_task, completed_tasks>>
    PROVE  TasksInv'
<1>1. CompletedInv'
  <2>1. PICK D \in SUBSET Taken :
           /\ IsFiniteSet(D)
           /\ Cardinality(D) = completed_tasks
           /\ \A i \in D : TaskReported(plan.tasks[i])
           /\ \A w \in ComparisonWorkers :
                 Comparing(w) => comparer[w].task \in Taken \ D
    BY DEF TasksInv, CompletedInv
  <2>2. \A t : TaskReported(t) => TaskReported(t)'
    BY ReportStays
  <2>3. D \in SUBSET Taken'
    BY DEF Taken
  <2>4. \A w \in ComparisonWorkers :
           Comparing(w)' => comparer'[w].task \in Taken' \ D
    BY <2>1 DEF Comparing, Taken
  <2> QED BY <2>1, <2>2, <2>3, <2>4 DEF CompletedInv
<1> QED BY <1>1 DEF TasksInv, Comparing

\* A step of the job before or after the comparison.
LEMMA JobMoves ==
    ASSUME ComparisonInv, UNCHANGED <<fs, inventory, run, mismatches,
                                      operation_comparisons,
                                      comparison_complete,
                                      comparisonVars>>,
           job # "compare_contents", job' # "compare_contents",
           Planned' => Planned,
           job' \in Early => job \in Early,
           job' = "plan" => \A e \in Endpoints : run[e] = "inventory",
           comparison_complete => job' \in {"detach", "finish", "ready"}
    PROVE  ComparisonInv'
<1>0. RecordsStay /\ UNCHANGED <<plan, comparer, next_task, completed_tasks>>
  BY DEF RecordsStay, comparisonVars
<1>1. ComparersInv'
  BY <1>0, ComparersStay DEF ComparisonInv, ComparersInv
<1>2. EarlyInv'
  BY <1>0 DEF ComparisonInv, EarlyInv
<1>3. PlanInv'
  BY <1>0, PlanIsStable DEF ComparisonInv, PlanInv, RecordsStay
<1>4. CompleteInv'
  BY <1>0, CompleteStays DEF ComparisonInv
<1> QED BY <1>1, <1>2, <1>3, <1>4 DEF ComparisonInv

\* A step that the comparison does not notice.
LEMMA ComparisonUnchanged ==
    ASSUME ComparisonInv, UNCHANGED <<fs, inventory, run, job, mismatches,
                                      operation_comparisons,
                                      comparison_complete,
                                      comparisonVars>>
    PROVE  ComparisonInv'
<1>0. RecordsStay /\ UNCHANGED <<plan, comparer, next_task, completed_tasks>>
  BY DEF RecordsStay, comparisonVars
<1>1. ComparersInv'
  BY <1>0, ComparersStay DEF ComparisonInv, ComparersInv
<1>2. EarlyInv'
  BY <1>0 DEF ComparisonInv, EarlyInv
<1>3. PlanInv'
  BY <1>0, PlanStays DEF ComparisonInv, Planned
<1>4. CompleteInv'
  BY <1>0, CompleteStays DEF ComparisonInv, CompleteInv
<1>5. job = "compare_contents" => TasksInv'
  BY <1>0, TasksStay DEF ComparisonInv
<1> QED BY <1>1, <1>2, <1>3, <1>4, <1>5 DEF ComparisonInv

\* The steps of the job around the traversals and the comparison.
LEMMA JobKeepsComparison ==
    ASSUME ComparisonInv,
           \/ BeginJob \/ Attach \/ AttachReal \/ AttachThrows
           \/ PreparationThrows \/ CleanupFailedAttachment \/ Detach
           \/ StartTraversal \/ Traversed \/ PrintFinalResults
    PROVE  ComparisonInv'
<1> DEFINE Same == UNCHANGED <<fs, inventory, run, mismatches,
                               operation_comparisons, comparison_complete,
                               comparisonVars>>
<1>0. comparison_complete => job \in {"detach", "finish", "ready"}
  BY DEF ComparisonInv, CompleteInv
<1>1. CASE BeginJob
  <2>1. /\ Same
        /\ job = "begin"
        /\ job' \in {"finish", "attach_synthetic"}
    BY <1>1 DEF BeginJob, JobStep, traverserVars, stateVars
  <2> QED BY <1>0, <2>1, JobMoves DEF Planned, Early
<1>2. CASE Attach
  <2>1. /\ Same
        /\ job \in {"attach_synthetic", "attach_real"}
        /\ job' \in {"compare", "attached"}
    BY <1>2 DEF Attach, Attaching, traverserVars, stateVars
  <2> QED BY <1>0, <2>1, JobMoves DEF Planned, Early
<1>3. CASE AttachReal
  <2>1. /\ Same
        /\ job = "attached"
        /\ job' \in {"detach", "attach_real"}
    BY <1>3 DEF AttachReal, JobStep, traverserVars, stateVars
  <2> QED BY <1>0, <2>1, JobMoves DEF Planned, Early
<1>4. CASE AttachThrows \/ PreparationThrows
  <2>1. /\ Same
        /\ job \in {"attach_synthetic", "attach_real"}
        /\ job' \in {"finish", "detach", "cleanup"}
    BY <1>4 DEF AttachThrows, PreparationThrows, Attaching, Unwind,
                traverserVars
  <2> QED BY <1>0, <2>1, JobMoves DEF Planned, Early
<1>5. CASE CleanupFailedAttachment
  <2>1. /\ Same
        /\ job = "cleanup"
        /\ job' \in {"finish", "detach"}
    BY <1>5 DEF CleanupFailedAttachment, JobStep, Unwind, traverserVars,
                stateVars
  <2> QED BY <1>0, <2>1, JobMoves DEF Planned, Early
<1>6. CASE Detach
  <2>1. /\ Same
        /\ job = "detach"
        /\ job' \in {"finish", "detach"}
    BY <1>6 DEF Detach, traversalVars, traverserVars
  <2> QED BY <1>0, <2>1, JobMoves DEF Planned, Early
<1>7. CASE StartTraversal
  <2>1. /\ Same
        /\ job = "compare"
        /\ job' \in {"detach", "traverse"}
    BY <1>7 DEF StartTraversal, JobStep, traversalVars, traverserVars,
                stateVars, JobUnchanged
  <2> QED BY <1>0, <2>1, JobMoves DEF Planned, Early
<1>8. CASE Traversed
  <2>1. /\ Same
        /\ job = "traverse"
        /\ job' \in {"detach", "plan"}
    BY <1>8 DEF Traversed, traversalVars, traverserVars, JobUnchanged
  <2>2. job' = "plan" => \A e \in Endpoints : run[e] = "inventory"
    BY <1>8 DEF Traversed
  <2> QED BY <1>0, <2>1, <2>2, JobMoves DEF Planned, Early
<1>9. CASE PrintFinalResults
  <2>1. /\ Same
        /\ job = "finish"
        /\ job' = "ready"
    BY <1>9 DEF PrintFinalResults, JobStep, traversalVars, traverserVars,
                stateVars
  <2> QED BY <1>0, <2>1, JobMoves DEF Planned, Early
<1> QED BY <1>1, <1>2, <1>3, <1>4, <1>5, <1>6, <1>7, <1>8, <1>9

\* While the plan is made there are no workers of the comparison.
LEMMA EarlyComparers ==
    ASSUME ComparersInv, EarlyInv, job \in Early, UNCHANGED <<fs, comparer>>
    PROVE  ComparersInv'
<1>1. \A w \in ComparisonWorkers : comparer[w].pc = "unborn"
  BY DEF EarlyInv
<1> QED BY <1>1
        DEF ComparersInv, ComparerShape, StreamKept, TaskKept, Comparing

\* BuildComparisonPlan returns a plan ...
LEMMA PlanKeepsComparison ==
    ASSUME TraversalInv, ComparisonInv, BuildComparisonPlan
    PROVE  ComparisonInv'
<1>0. /\ job = "plan" /\ job' = "start_workers"
      /\ mismatches' = PlanRecords.mismatches
      /\ operation_comparisons' = PlanRecords.comparisons
      /\ UNCHANGED <<fs, inventory, run, next_task, completed_tasks, comparer,
                     comparison_complete>>
  BY DEF BuildComparisonPlan, JobStep, traversalVars, traverserVars
<1>1. ~comparison_complete
  BY <1>0 DEF ComparisonInv, CompleteInv
<1>2. ComparersInv' /\ EarlyInv'
  BY <1>0, EarlyComparers DEF ComparisonInv, EarlyInv, Early
<1>3. PlanRecords' = PlanRecords /\ ReadTasks' = ReadTasks
  BY <1>0, PlanIsStable
<1>4. PICK chosen \in Selections :
         \E tasks \in [1 .. Cardinality(chosen) -> chosen] :
            /\ \A x \in chosen : \E i \in DOMAIN tasks : tasks[i] = x
            /\ plan' = [tasks |-> tasks, available |-> Cardinality(ReadTasks)]
  BY DEF BuildComparisonPlan, InOrder
<1>5. PICK tasks \in [1 .. Cardinality(chosen) -> chosen] :
         /\ \A x \in chosen : \E i \in DOMAIN tasks : tasks[i] = x
         /\ plan' = [tasks |-> tasks, available |-> Cardinality(ReadTasks)]
  BY <1>4
<1>6. chosen \in SUBSET ReadTasks /\ IsFiniteSet(chosen)
  <2>1. chosen \in SUBSET ReadTasks
    BY <1>4 DEF Selections
  <2> QED BY <2>1, ReadTasksFinite, FS_Subset
<1>7. tasks \in Seq(chosen) /\ Len(tasks) = Cardinality(chosen)
  BY <1>5, <1>6, InOrderIsSeq
<1>8. ToSet(tasks) = chosen
  <2>1. chosen \subseteq ToSet(tasks)
    BY <1>5 DEF ToSet
  <2>2. ToSet(tasks) \subseteq chosen
    BY <1>5 DEF ToSet
  <2> QED BY <2>1, <2>2
<1>9. tasks \in Seq(ReadTasks)
  BY <1>6, <1>7, SeqOfSubset
<1>10. plan'.tasks = tasks /\ plan'.available = Cardinality(ReadTasks)
  BY <1>5
<1>11. PlanInv'
  <2>1. \A e \in Endpoints : run'[e] = "inventory"
    BY <1>0 DEF ComparisonInv, PlanInv
  <2> QED BY <1>0, <1>3, <1>7, <1>8, <1>9, <1>10, <2>1 DEF PlanInv
<1>12. CompleteInv'
  BY <1>0, <1>1 DEF CompleteInv
<1> QED BY <1>0, <1>2, <1>11, <1>12 DEF ComparisonInv

\* ... or is cancelled.
LEMMA CancelledPlanKeepsComparison ==
    ASSUME ComparisonInv, BuildComparisonPlanCancelled
    PROVE  ComparisonInv'
<1>0. /\ job = "plan" /\ job' = "detach"
      /\ UNCHANGED <<fs, inventory, run, comparer, comparison_complete>>
  BY DEF BuildComparisonPlanCancelled, JobStep, traversalVars, traverserVars,
         JobUnchanged, comparisonVars
<1>1. ~comparison_complete
  BY <1>0 DEF ComparisonInv, CompleteInv
<1>2. ComparersInv'
  BY <1>0, EarlyComparers DEF ComparisonInv, Early
<1> QED BY <1>0, <1>1, <1>2
        DEF ComparisonInv, EarlyInv, Early, PlanInv, Planned, CompleteInv

\* The workers of the comparison are started, some or all.
LEMMA StartKeepsComparison ==
    ASSUME ComparisonInv, StartComparison \/ StartComparisonFails
    PROVE  ComparisonInv'
<1>0. /\ job = "start_workers"
      /\ job' \in {"detach", "compare_contents"}
      /\ UNCHANGED <<fs, inventory, run, plan, next_task, completed_tasks,
                     mismatches, operation_comparisons, comparison_complete>>
  BY DEF StartComparison, StartComparisonFails, JobStep, traversalVars,
         traverserVars, stateVars
<1>1. PICK started \in SUBSET ComparisonWorkers :
         /\ comparer' = [w \in ComparisonWorkers |->
                           [comparer[w] EXCEPT
                              !.pc = IF w \in started THEN "register"
                                     ELSE "done"]]
         /\ job' = "detach" => started = {}
  <2>1. CASE StartComparisonFails
    BY <2>1 DEF StartComparisonFails, JobStep
  <2>2. CASE StartComparison
    <3>1. PICK started \in SUBSET ComparisonWorkers :
             /\ cancellation_event => Cardinality(started) = 0
             /\ comparer' = [w \in ComparisonWorkers |->
                               [comparer[w] EXCEPT
                                  !.pc = IF w \in started THEN "register"
                                         ELSE "done"]]
      BY <2>2 DEF StartComparison
    <3>2. IsFiniteSet(started)
      BY <3>1, ComparisonWorkersAssumption, FS_Subset
    <3>3. job' = "detach" => cancellation_event
      BY <2>2 DEF StartComparison, JobStep
    <3>4. Cardinality(started) = 0 => started = {}
      BY <3>2, FS_EmptySet
    <3> QED BY <3>1, <3>3, <3>4
  <2> QED BY <2>1, <2>2
<1>2. /\ next_task = 1
      /\ completed_tasks = 0
      /\ \A w \in ComparisonWorkers : comparer[w].stream = <<>>
  BY <1>0 DEF ComparisonInv, EarlyInv, Early
<1>3. ~comparison_complete
  BY <1>0 DEF ComparisonInv, CompleteInv
<1>4. \A w \in ComparisonWorkers :
         comparer'[w] = [pc |-> IF w \in started THEN "register" ELSE "done",
                         task |-> comparer[w].task,
                         stream |-> comparer[w].stream,
                         readable |-> comparer[w].readable,
                         accepted |-> comparer[w].accepted]
  <2> SUFFICES ASSUME NEW w \in ComparisonWorkers
               PROVE  comparer'[w]
                         = [pc |-> IF w \in started THEN "register"
                                   ELSE "done",
                            task |-> comparer[w].task,
                            stream |-> comparer[w].stream,
                            readable |-> comparer[w].readable,
                            accepted |-> comparer[w].accepted]
    OBVIOUS
  <2> DEFINE pc == IF w \in started THEN "register" ELSE "done"
  <2>1. comparer'[w] = [comparer[w] EXCEPT !.pc = pc]
    BY <1>1
  <2>2. comparer[w] = [pc |-> comparer[w].pc, task |-> comparer[w].task,
                       stream |-> comparer[w].stream,
                       readable |-> comparer[w].readable,
                       accepted |-> comparer[w].accepted]
    BY DEF ComparisonInv, ComparersInv, ComparerShape
  <2> HIDE DEF pc
  <2>3. comparer'[w] = [pc |-> pc, task |-> comparer[w].task,
                        stream |-> comparer[w].stream,
                        readable |-> comparer[w].readable,
                        accepted |-> comparer[w].accepted]
    BY <2>1, <2>2
  <2> QED BY <2>3 DEF pc
<1>5. \A w \in ComparisonWorkers :
         /\ comparer'[w].pc = IF w \in started THEN "register" ELSE "done"
         /\ comparer'[w].stream = <<>>
         /\ comparer'[w] = [pc |-> comparer'[w].pc, task |-> comparer'[w].task,
                            stream |-> comparer'[w].stream,
                            readable |-> comparer'[w].readable,
                            accepted |-> comparer'[w].accepted]
  <2> SUFFICES ASSUME NEW w \in ComparisonWorkers
               PROVE  /\ comparer'[w].pc
                            = IF w \in started THEN "register" ELSE "done"
                      /\ comparer'[w].stream = <<>>
                      /\ comparer'[w]
                            = [pc |-> comparer'[w].pc,
                               task |-> comparer'[w].task,
                               stream |-> comparer'[w].stream,
                               readable |-> comparer'[w].readable,
                               accepted |-> comparer'[w].accepted]
    OBVIOUS
  <2> DEFINE pc == IF w \in started THEN "register" ELSE "done"
             old == comparer[w]
  <2>1. comparer'[w] = [pc |-> pc, task |-> old.task, stream |-> old.stream,
                        readable |-> old.readable, accepted |-> old.accepted]
    BY <1>4
  <2>2. old.stream = <<>>
    BY <1>2
  <2> HIDE DEF pc, old
  <2>3. /\ comparer'[w].pc = pc
        /\ comparer'[w].stream = old.stream
        /\ comparer'[w].task = old.task
        /\ comparer'[w].readable = old.readable
        /\ comparer'[w].accepted = old.accepted
    BY <2>1
  <2> QED BY <2>1, <2>2, <2>3 DEF pc
<1>6. ComparersInv'
  <2>1. ComparerShape'
    <3>1. comparer' = [w \in ComparisonWorkers |-> comparer'[w]]
      BY <1>1
    <3> QED BY <1>5, <3>1 DEF ComparerShape
  <2>2. ASSUME NEW w \in ComparisonWorkers
        PROVE  /\ comparer'[w].pc \in {"register", "next", "open", "read"} =>
                     job' = "compare_contents"
               /\ comparer'[w].pc \notin {"next", "open", "read"}
    <3>1. job' = "compare_contents" \/ started = {}
      BY <1>0, <1>1
    <3>2. comparer'[w].pc \in {"register", "done"}
      BY <1>5
    <3>3. comparer'[w].pc = "register" => w \in started
      BY <1>5
    <3> QED BY <3>1, <3>2, <3>3
  <2> QED BY <1>5, <2>1, <2>2 DEF ComparersInv, StreamKept, TaskKept, Comparing
<1>7. EarlyInv'
  BY <1>0 DEF EarlyInv, Early
<1>8. PlanInv'
  BY <1>0, PlanStays DEF ComparisonInv, Planned, RecordsStay
<1>9. CompleteInv'
  BY <1>0, <1>3 DEF CompleteInv
<1>10. TasksInv'
  <2>1. \A w \in ComparisonWorkers : ~Comparing(w)'
    BY <1>5 DEF Comparing
  <2>2. plan.tasks \in Seq(ReadTasks)
    BY <1>0 DEF ComparisonInv, PlanInv, Planned
  <2>3. Len(plan.tasks) \in Nat
    BY <2>2
  <2>4. CompletedInv'
    <3>1. {} \in SUBSET Taken'
      OBVIOUS
    <3>2. IsFiniteSet({}) /\ Cardinality({}) = completed_tasks'
      BY <1>0, <1>2, FS_EmptySet
    <3> QED BY <2>1, <3>1, <3>2 DEF CompletedInv
  <2> QED BY <1>0, <1>2, <2>1, <2>3, <2>4 DEF TasksInv
<1> QED BY <1>6, <1>7, <1>8, <1>9, <1>10 DEF ComparisonInv

\* They have returned: if all the tasks are completed, each has been reported.
LEMMA ComparedKeepsComparison ==
    ASSUME ComparisonInv, Compared
    PROVE  ComparisonInv'
<1>0. /\ job = "compare_contents" /\ job' = "detach"
      /\ \A w \in ComparisonWorkers : comparer[w].pc \in {"done", "threw"}
      /\ comparison_complete' => /\ completed_tasks = Len(plan.tasks)
                                 /\ ~ComparisonSurfaceIncomplete
      /\ UNCHANGED <<fs, inventory, run, plan, next_task, completed_tasks,
                     comparer, mismatches, operation_comparisons>>
  BY DEF Compared, JobStep, traversalVars, traverserVars, comparisonVars
<1>1. RecordsStay
  BY <1>0 DEF RecordsStay
<1>2. ComparersInv'
  BY <1>0, <1>1, ComparersStay DEF ComparisonInv
<1>3. EarlyInv'
  BY <1>0 DEF EarlyInv, Early
<1>4. PlanInv'
  BY <1>0, <1>1, PlanStays DEF ComparisonInv, Planned
<1>5. CompleteInv'
  <2> SUFFICES ASSUME comparison_complete' PROVE CompleteInv'
    BY DEF CompleteInv
  <2>1. TasksInv /\ plan.tasks \in Seq(ReadTasks)
    BY <1>0 DEF ComparisonInv, PlanInv, Planned
  <2>2. PICK D \in SUBSET Taken :
           /\ Cardinality(D) = completed_tasks
           /\ \A i \in D : TaskReported(plan.tasks[i])
    BY <2>1 DEF TasksInv, CompletedInv
  <2> DEFINE n == Len(plan.tasks)
  <2>3. n \in Nat /\ DOMAIN plan.tasks = 1 .. n
    BY <2>1
  <2>4. Taken \subseteq 1 .. n
    BY <2>1, <2>3 DEF TasksInv, Taken
  <2> HIDE DEF n
  <2>5. IsFiniteSet(1 .. n) /\ Cardinality(1 .. n) = n
    BY <2>3, FS_Interval
  <2>6. D = 1 .. n
    BY <1>0, <2>2, <2>4, <2>5, FS_Subset DEF n
  <2>7. \A i \in DOMAIN plan.tasks : TaskReported(plan.tasks[i])'
    BY <1>0, <1>1, <2>2, <2>3, <2>6, ReportStays
  <2>8. ~ComparisonSurfaceIncomplete'
    BY <1>0 DEF ComparisonSurfaceIncomplete
  <2> QED BY <1>0, <2>7, <2>8 DEF CompleteInv
<1> QED BY <1>0, <1>2, <1>3, <1>4, <1>5 DEF ComparisonInv

\* A worker of the comparison changes its record only.
ComparerGets(w, pc, task, stream, readable, accepted) ==
    comparer' = [comparer EXCEPT ![w] =
                   [pc |-> pc, task |-> task, stream |-> stream,
                    readable |-> readable, accepted |-> accepted]]

\* Its fields are then these, and the others' are what they were.
LEMMA ComparerFields ==
    ASSUME ComparerShape, NEW w \in ComparisonWorkers, NEW pc, NEW task,
           NEW stream, NEW readable, NEW accepted,
           ComparerGets(w, pc, task, stream, readable, accepted)
    PROVE  /\ ComparerShape'
           /\ comparer'[w].pc = pc
           /\ comparer'[w].task = task
           /\ comparer'[w].stream = stream
           /\ comparer'[w].readable = readable
           /\ comparer'[w].accepted = accepted
           /\ \A v \in ComparisonWorkers \ {w} : comparer'[v] = comparer[v]
<1>1. DOMAIN comparer = ComparisonWorkers
  BY DEF ComparerShape
<1> DEFINE r == [pc |-> pc, task |-> task, stream |-> stream,
                 readable |-> readable, accepted |-> accepted]
<1>2. r = [pc |-> r.pc, task |-> r.task, stream |-> r.stream,
           readable |-> r.readable, accepted |-> r.accepted]
  OBVIOUS
<1>3. comparer' = [comparer EXCEPT ![w] = r]
  BY DEF ComparerGets
<1>4. /\ r.pc = pc /\ r.task = task /\ r.stream = stream
      /\ r.readable = readable /\ r.accepted = accepted
  OBVIOUS
<1> HIDE DEF r
<1>5. /\ comparer'[w] = r
      /\ \A v \in ComparisonWorkers \ {w} : comparer'[v] = comparer[v]
      /\ comparer' = [v \in ComparisonWorkers |-> comparer'[v]]
  BY <1>1, <1>3
<1>6. ASSUME NEW v \in ComparisonWorkers
      PROVE  comparer'[v] = [pc |-> comparer'[v].pc,
                             task |-> comparer'[v].task,
                             stream |-> comparer'[v].stream,
                             readable |-> comparer'[v].readable,
                             accepted |-> comparer'[v].accepted]
  <2>1. CASE v = w
    BY <1>2, <1>5, <2>1
  <2>2. CASE v # w
    BY <1>5, <2>2 DEF ComparerShape
  <2> QED BY <2>1, <2>2
<1>7. ComparerShape'
  BY <1>5, <1>6 DEF ComparerShape
<1> QED BY <1>4, <1>5, <1>7

\* The record of a worker, and how the steps change it.
LEMMA ComparerRecord ==
    ASSUME ComparerShape, NEW w \in ComparisonWorkers
    PROVE  comparer[w] = [pc |-> comparer[w].pc, task |-> comparer[w].task,
                          stream |-> comparer[w].stream,
                          readable |-> comparer[w].readable,
                          accepted |-> comparer[w].accepted]
BY DEF ComparerShape

\* A worker goes on to pc and keeps the rest.
LEMMA ComparerGoes ==
    ASSUME ComparerShape, NEW w \in ComparisonWorkers, NEW pc,
           comparer' = [comparer EXCEPT ![w].pc = pc]
    PROVE  ComparerGets(w, pc, comparer[w].task, comparer[w].stream,
                        comparer[w].readable, comparer[w].accepted)
<1> DEFINE old == comparer[w]
<1>1. old = [pc |-> old.pc, task |-> old.task, stream |-> old.stream,
             readable |-> old.readable, accepted |-> old.accepted]
  BY ComparerRecord
<1>2. comparer' = [comparer EXCEPT ![w] = [old EXCEPT !.pc = pc]]
  OBVIOUS
<1> HIDE DEF old
<1>3. [old EXCEPT !.pc = pc]
         = [pc |-> pc, task |-> old.task, stream |-> old.stream,
            readable |-> old.readable, accepted |-> old.accepted]
  BY <1>1
<1>4. comparer' = [comparer EXCEPT ![w] =
                     [pc |-> pc, task |-> old.task, stream |-> old.stream,
                      readable |-> old.readable, accepted |-> old.accepted]]
  BY <1>2, <1>3
<1> QED BY <1>4 DEF ComparerGets, old

\* A task is taken, kept, given up or completed by worker w.
LEMMA TasksStep ==
    ASSUME TasksInv, UNCHANGED <<fs, plan>>, RecordsStay,
           plan.tasks \in Seq(ReadTasks),
           NEW w \in ComparisonWorkers,
           \A v \in ComparisonWorkers \ {w} : comparer'[v] = comparer[v],
           \/ next_task' = next_task
           \/ next_task <= Len(plan.tasks) /\ next_task' = next_task + 1,
           Comparing(w)' =>
              \/ comparer'[w].task = next_task /\ next_task' = next_task + 1
              \/ Comparing(w) /\ comparer'[w].task = comparer[w].task,
           \/ completed_tasks' = completed_tasks
           \/ /\ completed_tasks' = completed_tasks + 1
              /\ ~Comparing(w)'
              /\ \E i : /\ TaskReported(plan.tasks[i])'
                        /\ \/ i = next_task /\ next_task' = next_task + 1
                           \/ i = comparer[w].task /\ Comparing(w)
    PROVE  TasksInv'
<1>1. PICK D \in SUBSET Taken :
         /\ IsFiniteSet(D)
         /\ Cardinality(D) = completed_tasks
         /\ \A i \in D : TaskReported(plan.tasks[i])
         /\ \A v \in ComparisonWorkers :
               Comparing(v) => comparer[v].task \in Taken \ D
  BY DEF TasksInv, CompletedInv
<1>2. \A i \in D : TaskReported(plan.tasks[i])'
  BY <1>1, ReportStays
<1>3. next_task \in Nat \ {0} /\ Len(plan.tasks) \in Nat
  BY DEF TasksInv
<1>4. /\ Taken \subseteq Taken'
      /\ next_task \notin Taken
      /\ next_task' = next_task + 1 => next_task \in Taken'
      /\ next_task' \in Nat \ {0}
      /\ next_task' - 1 <= Len(plan.tasks)
  BY <1>3 DEF Taken, TasksInv
<1>5. \A v \in ComparisonWorkers \ {w} :
         Comparing(v)' => Comparing(v) /\ comparer'[v].task = comparer[v].task
  BY DEF Comparing
<1>6. \A v \in ComparisonWorkers :
         Comparing(v)' => comparer'[v].task \in Taken' \ D
  BY <1>1, <1>4, <1>5
<1>7. ASSUME NEW u \in ComparisonWorkers, NEW v \in ComparisonWorkers,
             Comparing(u)', Comparing(v)',
             comparer'[u].task = comparer'[v].task
      PROVE  u = v
  <2>1. \A x \in ComparisonWorkers :
           Comparing(x) => comparer[x].task # next_task
    BY <1>1, <1>4
  <2> QED BY <1>5, <1>7, <2>1 DEF TasksInv
<1>8. CompletedInv'
  <2>1. CASE completed_tasks' = completed_tasks
    <3>1. D \in SUBSET Taken'
      BY <1>4
    <3> QED BY <1>1, <1>2, <1>6, <2>1, <3>1 DEF CompletedInv
  <2>2. CASE completed_tasks' = completed_tasks + 1 /\ ~Comparing(w)'
    <3>0. CASE completed_tasks' = completed_tasks
      BY <2>1, <3>0
    <3>1. PICK i : /\ TaskReported(plan.tasks[i])'
                   /\ \/ i = next_task /\ next_task' = next_task + 1
                      \/ i = comparer[w].task /\ Comparing(w)
      BY <2>2, <3>0
    <3>2. i \in Taken' \ D
      BY <1>1, <1>4, <3>1
    <3> DEFINE E == D \cup {i}
    <3>3. E \in SUBSET Taken'
      BY <1>4, <3>2
    <3>4. IsFiniteSet(E) /\ Cardinality(E) = completed_tasks'
      BY <1>1, <2>2, <3>2, FS_AddElement
    <3>5. \A j \in E : TaskReported(plan.tasks[j])'
      BY <1>2, <3>1
    <3>6. \A v \in ComparisonWorkers :
             Comparing(v)' => comparer'[v].task \in Taken' \ E
      <4> SUFFICES ASSUME NEW v \in ComparisonWorkers, Comparing(v)'
                   PROVE  comparer'[v].task # i
        BY <1>6
      <4>1. v # w /\ Comparing(v) /\ comparer'[v].task = comparer[v].task
        BY <1>5, <2>2
      <4>2. comparer[v].task # next_task
        BY <1>1, <1>4, <4>1
      <4> QED BY <3>1, <4>1, <4>2 DEF TasksInv
    <3> HIDE DEF E
    <3> QED BY <3>3, <3>4, <3>5, <3>6 DEF CompletedInv
  <2> QED BY <2>1, <2>2
<1> QED BY <1>3, <1>4, <1>7, <1>8 DEF TasksInv

\* A step of worker w that does right by its stream and its task.
LEMMA ComparerKeeps ==
    ASSUME ComparisonInv, job = "compare_contents", RecordsStay,
           UNCHANGED <<fs, inventory, run, plan, job, comparison_complete>>,
           NEW w \in ComparisonWorkers, ComparerShape',
           \A v \in ComparisonWorkers \ {w} : comparer'[v] = comparer[v],
           comparer'[w].pc # "register",
           StreamKept(w)', TaskKept(w)', TasksInv'
    PROVE  ComparisonInv'
<1>1. ComparersInv'
  <2>1. ASSUME NEW v \in ComparisonWorkers \ {w}
        PROVE  /\ StreamKept(v)' /\ TaskKept(v)'
               /\ comparer'[v].pc = "register" => comparer'[v].stream = <<>>
    <3>1. StreamKept(v)'
      BY ReportStays DEF ComparisonInv, ComparersInv, StreamKept
    <3>2. TaskKept(v)'
      BY ReportStays
         DEF ComparisonInv, ComparersInv, TaskKept, Comparing, StreamKey, Task
    <3> QED BY <3>1, <3>2 DEF ComparisonInv, ComparersInv
  <2> QED BY <2>1 DEF ComparersInv
<1>2. EarlyInv'
  BY DEF EarlyInv, Early
<1>3. PlanInv'
  BY PlanStays DEF ComparisonInv, Planned
<1>4. CompleteInv'
  BY CompleteStays DEF ComparisonInv, CompleteInv
<1> QED BY <1>1, <1>2, <1>3, <1>4 DEF ComparisonInv

\* A worker starts, stops or fails: it has no task.
LEMMA ComparerIdles ==
    ASSUME ComparisonInv, job = "compare_contents", RecordsStay,
           UNCHANGED <<fs, inventory, run, plan, job, comparison_complete,
                       next_task, completed_tasks>>,
           NEW w \in ComparisonWorkers, NEW pc \in {"next", "done", "threw"},
           comparer' = [comparer EXCEPT ![w].pc = pc],
           pc = "next" => comparer[w].pc = "register"
    PROVE  ComparisonInv'
<1>0. ComparerShape /\ TasksInv /\ plan.tasks \in Seq(ReadTasks)
  BY DEF ComparisonInv, ComparersInv, PlanInv, Planned
<1>1. ComparerGets(w, pc, comparer[w].task, comparer[w].stream,
                   comparer[w].readable, comparer[w].accepted)
  BY <1>0, ComparerGoes
<1>2. /\ ComparerShape'
      /\ comparer'[w].pc = pc
      /\ comparer'[w].stream = comparer[w].stream
      /\ \A v \in ComparisonWorkers \ {w} : comparer'[v] = comparer[v]
  BY <1>0, <1>1, ComparerFields
<1>3. pc = "next" => comparer[w].stream = <<>>
  BY DEF ComparisonInv, ComparersInv
<1>4. StreamKept(w)'
  BY <1>2, <1>3 DEF StreamKept
<1>5. ~Comparing(w)' /\ TaskKept(w)'
  BY <1>2 DEF Comparing, TaskKept
<1>6. TasksInv'
  BY <1>0, <1>2, <1>5, TasksStep
<1> QED BY <1>2, <1>4, <1>5, <1>6, ComparerKeeps

\* RegisterComparer, ComparerThrows and ComparerReturns.
LEMMA ComparerIdleSteps ==
    ASSUME ComparisonInv, NEW w \in ComparisonWorkers,
           comparer[w].pc \in {"register", "next", "open", "read"},
           RegisterComparer(w) \/ ComparerThrows(w) \/ ComparerReturns(w)
    PROVE  ComparisonInv'
<1>0. job = "compare_contents"
  BY DEF ComparisonInv, ComparersInv
<1>1. /\ UNCHANGED <<fs, inventory, run, plan, job, comparison_complete,
                     next_task, completed_tasks>>
      /\ UNCHANGED <<mismatches, operation_comparisons>>
  BY DEF RegisterComparer, ComparerThrows, ComparerReturns, traversalVars,
         traverserVars, stateVars
<1>2. RecordsStay
  BY <1>1 DEF RecordsStay
<1>3. CASE RegisterComparer(w)
  BY <1>0, <1>1, <1>2, <1>3, ComparerIdles DEF RegisterComparer
<1>4. CASE ComparerThrows(w)
  BY <1>0, <1>1, <1>2, <1>4, ComparerIdles DEF ComparerThrows
<1>5. CASE ComparerReturns(w)
  BY <1>0, <1>1, <1>2, <1>5, ComparerIdles DEF ComparerReturns
<1> QED BY <1>3, <1>4, <1>5

\* The fields of a worker that takes a task, ...
LEMMA TakeFields ==
    ASSUME ComparerShape, NEW w \in ComparisonWorkers,
           NEW task, NEW stream, NEW pc,
           comparer' = [comparer EXCEPT ![w].task = task,
                                        ![w].stream = stream,
                                        ![w].pc = pc]
    PROVE  ComparerGets(w, pc, task, stream,
                        comparer[w].readable, comparer[w].accepted)
<1>1. PICK r : r = comparer[w]
  OBVIOUS
<1>2. r = [pc |-> r.pc, task |-> r.task, stream |-> r.stream,
           readable |-> r.readable, accepted |-> r.accepted]
  BY <1>1, ComparerRecord
<1>3. PICK s : s = [r EXCEPT !.task = task]
  OBVIOUS
<1>4. s = [pc |-> r.pc, task |-> task, stream |-> r.stream,
           readable |-> r.readable, accepted |-> r.accepted]
  BY <1>2, <1>3
<1>5. PICK u : u = [s EXCEPT !.stream = stream]
  OBVIOUS
<1>6. u = [pc |-> r.pc, task |-> task, stream |-> stream,
           readable |-> r.readable, accepted |-> r.accepted]
  BY <1>4, <1>5
<1>7. [u EXCEPT !.pc = pc]
         = [pc |-> pc, task |-> task, stream |-> stream,
            readable |-> r.readable, accepted |-> r.accepted]
  BY <1>6
<1>8. [r EXCEPT !.task = task, !.stream = stream, !.pc = pc]
         = [u EXCEPT !.pc = pc]
  BY <1>3, <1>5
<1>9. comparer' = [comparer EXCEPT ![w] =
                     [r EXCEPT !.task = task, !.stream = stream, !.pc = pc]]
  BY <1>1 DEF ComparerShape
<1> QED BY <1>1, <1>7, <1>8, <1>9 DEF ComparerGets

\* ... of one that has opened a stream ...
LEMMA OpenedFields ==
    ASSUME ComparerShape, NEW w \in ComparisonWorkers,
           NEW pc, NEW readable,
           comparer' = [comparer EXCEPT ![w].pc = pc,
                                        ![w].readable = readable]
    PROVE  ComparerGets(w, pc, comparer[w].task, comparer[w].stream, readable,
                        comparer[w].accepted)
<1>1. PICK r : r = comparer[w]
  OBVIOUS
<1>2. r = [pc |-> r.pc, task |-> r.task, stream |-> r.stream,
           readable |-> r.readable, accepted |-> r.accepted]
  BY <1>1, ComparerRecord
<1>3. PICK s : s = [r EXCEPT !.pc = pc]
  OBVIOUS
<1>4. s = [pc |-> pc, task |-> r.task, stream |-> r.stream,
           readable |-> r.readable, accepted |-> r.accepted]
  BY <1>2, <1>3
<1>5. [s EXCEPT !.readable = readable]
         = [pc |-> pc, task |-> r.task, stream |-> r.stream,
            readable |-> readable, accepted |-> r.accepted]
  BY <1>4
<1>6. [r EXCEPT !.pc = pc, !.readable = readable]
         = [s EXCEPT !.readable = readable]
  BY <1>3
<1>7. comparer' = [comparer EXCEPT ![w] =
                     [r EXCEPT !.pc = pc, !.readable = readable]]
  BY <1>1 DEF ComparerShape
<1> QED BY <1>1, <1>5, <1>6, <1>7 DEF ComparerGets

\* ... and of one that could not.
LEMMA UnopenedFields ==
    ASSUME ComparerShape, NEW w \in ComparisonWorkers,
           NEW pc, NEW readable, NEW accepted,
           comparer' = [comparer EXCEPT ![w].pc = pc,
                                        ![w].readable = readable,
                                        ![w].accepted = accepted]
    PROVE  ComparerGets(w, pc, comparer[w].task, comparer[w].stream,
                        readable, accepted)
<1>1. PICK r : r = comparer[w]
  OBVIOUS
<1>2. r = [pc |-> r.pc, task |-> r.task, stream |-> r.stream,
           readable |-> r.readable, accepted |-> r.accepted]
  BY <1>1, ComparerRecord
<1>3. PICK s : s = [r EXCEPT !.pc = pc]
  OBVIOUS
<1>4. s = [pc |-> pc, task |-> r.task, stream |-> r.stream,
           readable |-> r.readable, accepted |-> r.accepted]
  BY <1>2, <1>3
<1>5. PICK u : u = [s EXCEPT !.readable = readable]
  OBVIOUS
<1>6. u = [pc |-> pc, task |-> r.task, stream |-> r.stream,
           readable |-> readable, accepted |-> r.accepted]
  BY <1>4, <1>5
<1>7. [u EXCEPT !.accepted = accepted]
         = [pc |-> pc, task |-> r.task, stream |-> r.stream,
            readable |-> readable, accepted |-> accepted]
  BY <1>6
<1>8. [r EXCEPT !.pc = pc, !.readable = readable, !.accepted = accepted]
         = [u EXCEPT !.accepted = accepted]
  BY <1>3, <1>5
<1>9. comparer' = [comparer EXCEPT ![w] =
                     [r EXCEPT !.pc = pc, !.readable = readable,
                               !.accepted = accepted]]
  BY <1>1 DEF ComparerShape
<1> QED BY <1>1, <1>7, <1>8, <1>9 DEF ComparerGets

\* A worker takes the next task: of a stream that it opens, or that it has
\* read, or that it could not open.
LEMMA NextTaskKeeps ==
    ASSUME ComparisonInv, NEW w \in ComparisonWorkers, NextTask(w)
    PROVE  ComparisonInv'
<1> DEFINE t == plan.tasks[next_task]
           key == StreamKey(t)
           same == comparer[w].stream = key
           dead == same /\ ~comparer[w].readable
           pc == IF ~same THEN "open" ELSE IF dead THEN "next" ELSE "read"
<1>0. /\ job = "compare_contents" /\ ComparerShape /\ TasksInv
      /\ plan.tasks \in Seq(ReadTasks) /\ StreamKept(w)
  BY DEF NextTask, ComparisonInv, ComparersInv, PlanInv, Planned
<1>1. CASE ComparerReturns(w)
  BY <1>1, ComparerIdleSteps DEF NextTask
<1>2. CASE ~ComparerReturns(w)
  <2>1. /\ comparer[w].pc = "next"
        /\ next_task <= Len(plan.tasks)
        /\ next_task' = next_task + 1
        /\ comparer' = [comparer EXCEPT ![w].task = next_task,
                                        ![w].stream = key, ![w].pc = pc]
        /\ CompareReturns(w, dead /\ comparer[w].accepted)
        /\ UNCHANGED <<mismatches, operation_comparisons>>
        /\ UNCHANGED ComparerUnchanged
    BY <1>2 DEF NextTask
  <2>2. UNCHANGED <<fs, inventory, run, plan, job, comparison_complete>>
    BY <2>1 DEF ComparerUnchanged, traversalVars, traverserVars
  <2>3. RecordsStay
    BY <2>1 DEF RecordsStay
  <2>4. completed_tasks' = completed_tasks
           \/ (completed_tasks' = completed_tasks + 1 /\ dead)
    BY <2>1 DEF CompareReturns
  <2> HIDE DEF pc
  <2>5. ComparerGets(w, pc, next_task, key, comparer[w].readable,
                     comparer[w].accepted)
    <3> HIDE DEF key
    <3> QED BY <1>0, <2>1, TakeFields
  <2>6. /\ ComparerShape'
        /\ comparer'[w].pc = pc
        /\ comparer'[w].task = next_task
        /\ comparer'[w].stream = key
        /\ comparer'[w].readable = comparer[w].readable
        /\ \A v \in ComparisonWorkers \ {w} : comparer'[v] = comparer[v]
    BY <1>0, <2>5, ComparerFields
  <2>7. Task(w)' = t /\ StreamKey(Task(w))' = key
    BY <2>2, <2>6 DEF Task, StreamKey
  <2>8. key # <<>> /\ key[1] = t.path /\ key[2] = t.stream
    BY DEF StreamKey
  <2>9. CASE ~same
    <3>1. pc = "open" /\ completed_tasks' = completed_tasks
      BY <2>4, <2>9 DEF pc
    <3>2. StreamKept(w)'
      BY <2>6, <3>1 DEF StreamKept
    <3>3. TaskKept(w)'
      BY <2>6, <2>7, <3>1 DEF TaskKept
    <3>4. TasksInv'
      BY <1>0, <2>1, <2>2, <2>3, <2>6, <3>1, TasksStep
    <3> QED BY <1>0, <2>2, <2>3, <2>6, <3>1, <3>2, <3>3, <3>4, ComparerKeeps
  <2>10. CASE same /\ ~dead
    <3>1. pc = "read" /\ completed_tasks' = completed_tasks
      BY <2>4, <2>10 DEF pc
    <3>2. CanReopen(t.path) /\ comparer[w].readable
      BY <1>0, <2>1, <2>8, <2>10 DEF StreamKept
    <3>4. StreamKept(w)'
      BY <2>6, <3>1 DEF StreamKept
    <3>5. TaskKept(w)'
      <4>1. CanReopen(Task(w).path)'
        BY <2>2, <2>7, <3>2 DEF CanReopen
      <4> QED BY <2>6, <2>7, <3>1, <3>2, <4>1 DEF TaskKept
    <3>6. TasksInv'
      BY <1>0, <2>1, <2>2, <2>3, <2>6, <3>1, TasksStep
    <3> QED BY <1>0, <2>2, <2>3, <2>6, <3>1, <3>4, <3>5, <3>6, ComparerKeeps
  <2>11. CASE dead
    <3>1. pc = "next"
      BY <2>11 DEF pc
    <3>2. ~CanReopen(t.path) /\ OpenFailed(t.path, t.stream)
      BY <1>0, <2>1, <2>8, <2>11 DEF StreamKept
    <3>3. TaskReported(t)
      BY <3>2 DEF TaskReported
    <3>4. TaskReported(plan.tasks[next_task])
      BY <3>3
    <3>5. \E i : TaskReported(plan.tasks[i])' /\ i = next_task
      <4>1. PICK i : i = next_task
        OBVIOUS
      <4>2. PICK x : x = plan.tasks[i]
        OBVIOUS
      <4>3. TaskReported(x)'
        BY <2>2, <2>3, <3>4, <4>1, <4>2, ReportStays
      <4>4. x = plan'.tasks[i]
        BY <2>2, <4>2
      <4>5. TaskReported(plan.tasks[i])'
        BY <4>3, <4>4
      <4> QED BY <4>1, <4>5
    <3>6. ~Comparing(w)'
      BY <2>6, <3>1 DEF Comparing
    <3>7. StreamKept(w)'
      <4> SUFFICES /\ comparer'[w].stream = comparer[w].stream
                   /\ comparer[w].pc = "next"
                   /\ comparer'[w].readable = comparer[w].readable
        BY <1>0, <2>2, <2>3, ReportStays DEF StreamKept
      <4> QED BY <2>1, <2>6, <2>11
    <3>8. TaskKept(w)'
      BY <3>6 DEF TaskKept
    <3>9. TasksInv'
      <4>1. \/ completed_tasks' = completed_tasks
            \/ /\ completed_tasks' = completed_tasks + 1
               /\ ~Comparing(w)'
               /\ \E i : /\ TaskReported(plan.tasks[i])'
                         /\ \/ i = next_task /\ next_task' = next_task + 1
                            \/ i = comparer[w].task /\ Comparing(w)
        BY <2>1, <2>4, <3>5, <3>6
      <4> QED BY <1>0, <2>1, <2>2, <2>3, <2>6, <3>6, <4>1, TasksStep
    <3> QED BY <1>0, <2>2, <2>3, <2>6, <3>1, <3>7, <3>8, <3>9, ComparerKeeps
  <2> QED BY <2>9, <2>10, <2>11
<1> QED BY <1>1, <1>2

\* The task of a worker that is in a call to the file systems.
LEMMA ComparingFacts ==
    ASSUME ComparisonInv, NEW w \in ComparisonWorkers, Comparing(w)
    PROVE  /\ job = "compare_contents"
           /\ ComparerShape
           /\ TasksInv
           /\ plan.tasks \in Seq(ReadTasks)
           /\ comparer[w].stream = StreamKey(Task(w))
           /\ comparer[w].stream # <<>>
           /\ comparer[w].stream[1] = Task(w).path
           /\ comparer[w].stream[2] = Task(w).stream
           /\ comparer[w].pc = "read" =>
                 comparer[w].readable /\ CanReopen(Task(w).path)
<1>1. job = "compare_contents" /\ ComparerShape /\ TaskKept(w)
  BY DEF ComparisonInv, ComparersInv, Comparing
<1>2. TasksInv /\ plan.tasks \in Seq(ReadTasks)
  BY <1>1 DEF ComparisonInv, PlanInv, Planned
<1>3. comparer[w].stream = StreamKey(Task(w))
  BY <1>1 DEF TaskKept
<1>4. /\ StreamKey(Task(w)) # <<>>
      /\ StreamKey(Task(w))[1] = Task(w).path
      /\ StreamKey(Task(w))[2] = Task(w).stream
  BY DEF StreamKey
<1> QED BY <1>1, <1>2, <1>3, <1>4 DEF TaskKept

\* A worker is through with its task, which is reported; it is counted as
\* completed or not.
LEMMA TaskEnds ==
    ASSUME ComparisonInv, NEW w \in ComparisonWorkers, Comparing(w),
           UNCHANGED <<fs, inventory, run, plan, job, comparison_complete,
                       next_task>>, RecordsStay,
           NEW readable, NEW accepted,
           ComparerGets(w, "next", comparer[w].task, comparer[w].stream,
                        readable, accepted),
           NEW t, t = Task(w), TaskReported(t)',
           IF readable THEN CanReopen(t.path)
           ELSE ~CanReopen(t.path) /\ OpenFailed(t.path, t.stream)',
           \/ completed_tasks' = completed_tasks
           \/ completed_tasks' = completed_tasks + 1
    PROVE  ComparisonInv'
<1>0. /\ job = "compare_contents"
      /\ ComparerShape
      /\ TasksInv
      /\ plan.tasks \in Seq(ReadTasks)
      /\ comparer[w].stream[1] = t.path
      /\ comparer[w].stream[2] = t.stream
  BY ComparingFacts
<1>1. /\ ComparerShape'
      /\ comparer'[w].pc = "next"
      /\ comparer'[w].stream = comparer[w].stream
      /\ comparer'[w].readable = readable
      /\ \A v \in ComparisonWorkers \ {w} : comparer'[v] = comparer[v]
  BY <1>0, ComparerFields
<1>2. ~Comparing(w)' /\ TaskKept(w)'
  BY <1>1 DEF Comparing, TaskKept
<1>3. StreamKept(w)'
  <2>1. CanReopen(t.path)' <=> CanReopen(t.path)
    BY ReportStays
  <2> QED BY <1>0, <1>1, <2>1 DEF StreamKept
<1>4. TasksInv'
  <2>1. PICK i : i = comparer[w].task
    OBVIOUS
  <2>2. t = plan'.tasks[i]
    BY <2>1 DEF Task
  <2>3. TaskReported(plan.tasks[i])'
    BY <2>2
  <2>4. \E j : /\ TaskReported(plan.tasks[j])'
               /\ \/ j = next_task /\ next_task' = next_task + 1
                  \/ j = comparer[w].task /\ Comparing(w)
    BY <2>1, <2>3
  <2> QED BY <1>0, <1>1, <1>2, <2>4, TasksStep
<1> QED BY <1>0, <1>1, <1>2, <1>3, <1>4, ComparerKeeps

\* The streams of a task are opened, or one of them cannot be.
LEMMA OpenStreamKeeps ==
    ASSUME IInv, ComparisonInv, NEW w \in ComparisonWorkers,
           OpenStreamReturns(w)
    PROVE  ComparisonInv'
<1>0. comparer[w].pc = "open" /\ Comparing(w)
  BY DEF OpenStreamReturns, Comparing
<1>1. CASE cancellation_event
  <2>1. ComparerReturns(w)
    BY <1>1 DEF OpenStreamReturns
  <2> QED BY <1>0, <2>1, ComparerIdleSteps
<1>2. CASE ~cancellation_event
  <2>1. PICK t : t = Task(w)
    OBVIOUS
  <2> DEFINE s == fs["synthetic"][t.path].reopen
             r == fs["real"][t.path].reopen
  <2>2. /\ \/ /\ s = "none" /\ r = "none"
              /\ comparer' = [comparer EXCEPT ![w].pc = "read",
                                              ![w].readable = TRUE]
              /\ UNCHANGED <<completed_tasks, operation_comparisons>>
           \/ /\ s # "none" \/ r # "none"
              /\ comparer' =
                    [comparer EXCEPT ![w].pc = "next",
                                     ![w].readable = FALSE,
                                     ![w].accepted = Accepted(w, s, r)]
              /\ RecordOperation(w, "OpenStream", s, r)
              /\ CompareReturns(w, Accepted(w, s, r))
        /\ UNCHANGED <<mismatches, next_task, ComparerUnchanged>>
    BY <1>2, <2>1, UninterruptedResult DEF OpenStreamReturns
  <2>3. UNCHANGED <<fs, inventory, run, plan, job, comparison_complete,
                    next_task, mismatches>>
    BY <2>2 DEF ComparerUnchanged, traversalVars, traverserVars
  <2>4. CanReopen(t.path) <=> s = "none" /\ r = "none"
    BY DEF CanReopen, Endpoints
  <2>5. /\ job = "compare_contents"
        /\ ComparerShape
        /\ TasksInv
        /\ plan.tasks \in Seq(ReadTasks)
        /\ comparer[w].stream = StreamKey(t)
    BY <1>0, <2>1, ComparingFacts
  <2>6. CASE s = "none" /\ r = "none"
    <3>1. /\ comparer' = [comparer EXCEPT ![w].pc = "read",
                                          ![w].readable = TRUE]
          /\ UNCHANGED <<completed_tasks, operation_comparisons>>
      BY <2>2, <2>6
    <3>2. RecordsStay
      BY <2>3, <3>1 DEF RecordsStay
    <3>0. PICK readable : readable = TRUE
      OBVIOUS
    <3>3. ComparerGets(w, "read", comparer[w].task, comparer[w].stream,
                       readable, comparer[w].accepted)
      BY <2>5, <3>0, <3>1, OpenedFields
    <3>4. /\ ComparerShape'
          /\ comparer'[w].pc = "read"
          /\ comparer'[w].task = comparer[w].task
          /\ comparer'[w].stream = comparer[w].stream
          /\ comparer'[w].readable = readable
          /\ \A v \in ComparisonWorkers \ {w} : comparer'[v] = comparer[v]
      BY <2>5, <3>3, ComparerFields
    <3>5. StreamKept(w)'
      BY <3>4 DEF StreamKept
    <3>6. Task(w)' = t
      BY <2>1, <2>3, <3>4 DEF Task
    <3>7. TaskKept(w)'
      <4>1. CanReopen(t.path)'
        BY <2>3, <2>4, <2>6, <3>2, ReportStays
      <4>2. CanReopen(Task(w).path)'
        BY <3>6, <4>1
      <4>3. StreamKey(Task(w))' = comparer[w].stream
        BY <2>5, <3>6 DEF StreamKey
      <4> QED BY <3>0, <3>4, <4>2, <4>3 DEF TaskKept
    <3>8. TasksInv'
      BY <1>0, <2>3, <2>5, <3>1, <3>2, <3>4, TasksStep
    <3> QED BY <2>3, <2>5, <3>2, <3>4, <3>5, <3>7, <3>8, ComparerKeeps
  <2>7. CASE s # "none" \/ r # "none"
    <3>1. /\ comparer' = [comparer EXCEPT ![w].pc = "next",
                                          ![w].readable = FALSE,
                                          ![w].accepted = Accepted(w, s, r)]
          /\ operation_comparisons' = operation_comparisons \cup
                {OperationComparison(t.path, t.stream, "OpenStream",
                                     Failure(s), Failure(r))}
          /\ CompareReturns(w, Accepted(w, s, r))
      BY <2>1, <2>2, <2>7 DEF RecordOperation
    <3>2. RecordsStay
      BY <2>3, <3>1 DEF RecordsStay
    <3>3. PICK accepted : accepted = Accepted(w, s, r)
      OBVIOUS
    <3>4. ComparerGets(w, "next", comparer[w].task, comparer[w].stream, FALSE,
                       accepted)
      <4>1. comparer' = [comparer EXCEPT ![w].pc = "next",
                                         ![w].readable = FALSE,
                                         ![w].accepted = accepted]
        BY <3>1, <3>3
      <4> QED BY <2>5, <4>1, UnopenedFields
    <3>5. OpenFailed(t.path, t.stream)'
      BY <2>3, <3>1 DEF OpenFailed, Failure, OperationComparison
    <3>6. ~CanReopen(t.path) /\ ~CanReopen(t.path)'
      BY <2>3, <2>4, <2>7, <3>2, ReportStays
    <3>7. TaskReported(t)'
      BY <3>5, <3>6 DEF TaskReported
    <3>8. \/ completed_tasks' = completed_tasks
          \/ completed_tasks' = completed_tasks + 1
      BY <3>1 DEF CompareReturns
    <3> HIDE DEF s, r
    <3> QED BY <1>0, <2>1, <2>3, <3>2, <3>4, <3>5, <3>6, <3>7, <3>8, TaskEnds
  <2> QED BY <2>6, <2>7
<1> QED BY <1>1, <1>2

\* A chunk of both is read and compared.
LEMMA ReadKeeps ==
    ASSUME IInv, ComparisonInv, NEW w \in ComparisonWorkers, ReadReturns(w)
    PROVE  ComparisonInv'
<1>0. comparer[w].pc = "read" /\ Comparing(w)
  BY DEF ReadReturns, Comparing
<1>1. CASE cancellation_event
  <2>1. ComparerReturns(w)
    BY <1>1 DEF ReadReturns
  <2> QED BY <1>0, <2>1, ComparerIdleSteps
<1>2. CASE ~cancellation_event
  <2>1. PICK t : t = Task(w)
    OBVIOUS
  <2>2. PICK s, r : /\ s = fs["synthetic"][t.path].read
                    /\ r = fs["real"][t.path].read
                    /\ CompareChunk(w, s, r)
    BY <1>2, <2>1, UninterruptedResult DEF ReadReturns
  <2>3. UNCHANGED <<fs, inventory, run, plan, job, comparison_complete,
                    next_task>>
    BY <2>2 DEF CompareChunk, ComparerUnchanged, traversalVars, traverserVars
  <2>4. /\ ComparerShape
        /\ comparer[w].readable
        /\ CanReopen(t.path)
    BY <1>0, <2>1, ComparingFacts
  <2> DEFINE quiet == s = r /\ s \in {"none", "short"}
             c == OperationComparison(t.path, t.stream, "ReadStream",
                                      Failure(s), Failure(r))
             m == [kind |-> "StreamContents", path |-> t.path,
                   stream |-> t.stream]
  <2>5. /\ comparer' = [comparer EXCEPT ![w].pc = "next"]
        /\ quiet => mismatches' = mismatches \cup ContentMismatch(w, s)
        /\ ~quiet => mismatches' = mismatches
        /\ IF s = "none" /\ r = "none"
           THEN operation_comparisons' = operation_comparisons
           ELSE operation_comparisons' = operation_comparisons \cup {c}
        /\ \/ completed_tasks' = completed_tasks
           \/ completed_tasks' = completed_tasks + 1
    BY <2>1, <2>2 DEF CompareChunk, CompareReturns, RecordOperation
  <2>6. RecordsStay
    BY <2>5 DEF RecordsStay
  <2>7. ComparerGets(w, "next", comparer[w].task, comparer[w].stream,
                     comparer[w].readable, comparer[w].accepted)
    BY <2>4, <2>5, ComparerGoes
  <2>8. ContentMismatch(w, s) = IF SameChunk(t, s) THEN {} ELSE {m}
    BY <2>1 DEF ContentMismatch
  <2>9. (s = "none" /\ r = "none") \/ c \in operation_comparisons'
    BY <2>5
  <2>10. quiet => SameChunk(t, s) \/ m \in mismatches'
    BY <2>5, <2>8
  <2>11. TaskReported(t)'
    <3>1. CanReopen(t.path)'
      BY <2>3, <2>4, <2>6, ReportStays
    <3>2. fs'["synthetic"][t.path].read = s /\ fs'["real"][t.path].read = r
      BY <2>2, <2>3
    <3>3. \/ \A e \in Endpoints : fs'[e][t.path].read = "none"
          \/ OperationComparison(t.path, t.stream, "ReadStream",
                                 Failure(fs["synthetic"][t.path].read),
                                 Failure(fs["real"][t.path].read))'
                \in operation_comparisons'
      BY <2>9, <3>2 DEF Endpoints, OperationComparison, Failure
    <3>4. quiet => SameChunk(t, fs["real"][t.path].read)' \/ m \in mismatches'
      <4>1. r = s =>
               (SameChunk(t, fs["real"][t.path].read)' <=> SameChunk(t, s))
        BY <2>3, <3>2 DEF SameChunk, Transferred, Chunk, StreamsOf
      <4> QED BY <2>10, <4>1
    <3> QED BY <3>1, <3>2, <3>3, <3>4 DEF TaskReported
  <2> HIDE DEF quiet, c, m
  <2> QED BY <1>0, <2>1, <2>3, <2>4, <2>5, <2>6, <2>7, <2>11, TaskEnds
<1> QED BY <1>1, <1>2

-----------------------------------------------------------------------------
(* The comparison is correct.                                              *)

\* Init establishes it.
LEMMA InitComparison == Init => ComparisonInv
<1> SUFFICES ASSUME Init PROVE ComparisonInv
  OBVIOUS
<1> PICK pc : pc = "unborn"
  OBVIOUS
<1> PICK no : no = FALSE
  OBVIOUS
<1> DEFINE r == [pc |-> pc, task |-> 0, stream |-> <<>>, readable |-> no,
                 accepted |-> no]
<1>1. /\ job = "begin" /\ ~comparison_complete /\ next_task = 1
      /\ completed_tasks = 0
      /\ comparer = [w \in ComparisonWorkers |-> r]
  BY DEF Init
<1>2. r = [pc |-> r.pc, task |-> r.task, stream |-> r.stream,
           readable |-> r.readable, accepted |-> r.accepted]
  OBVIOUS
<1>3. r.pc = "unborn" /\ r.stream = <<>>
  OBVIOUS
<1> HIDE DEF r
<1>4. \A w \in ComparisonWorkers : comparer[w] = r
  BY <1>1
<1>5. ComparerShape
  BY <1>1, <1>2, <1>4 DEF ComparerShape
<1>6. ComparersInv
  BY <1>3, <1>4, <1>5 DEF ComparersInv, StreamKept, TaskKept, Comparing
<1>7. EarlyInv
  BY <1>1, <1>3, <1>4 DEF EarlyInv
<1> QED BY <1>1, <1>6, <1>7 DEF ComparisonInv, PlanInv, Planned, CompleteInv

\* A step of a traversal comes before there is a plan.
LEMMA TraversalKeepsComparison ==
    ASSUME TraversalInv, ComparisonInv, NEW e \in Endpoints,
           \/ RunTraversal(e)
           \/ TraverserProgress(e)
           \/ \E w \in Workers[e] :
                 TraverserIoReturns(e, w) \/ TraverserFails(e, w)
    PROVE  ComparisonInv'
<1>0. UNCHANGED <<fs, job, stateVars, JobUnchanged>>
  BY DEF RunTraversal, Run, TraverserProgress, TraverserStep, Take,
         WorkerReturns, RunReturns, TraverserIoReturns, TraverserIo,
         OpenReturns, StreamsReturn, ListReturns, TraverserFails, WorkerThrows,
         OfTraversal
<1>1. UNCHANGED <<fs, job, mismatches, operation_comparisons,
                  comparison_complete, plan, comparer, next_task,
                  completed_tasks>>
  BY <1>0 DEF stateVars, JobUnchanged, comparisonVars
<1>2. run[e] # "inventory"
  <2> SUFFICES ASSUME run[e] = "inventory" PROVE FALSE
    OBVIOUS
  <2>1. \A w \in Workers[e] : worker[e][w].pc = "done"
    BY DEF TraversalInv, TraverserInv, InventoryInv, Inventory
  <2> QED BY <2>1 DEF RunTraversal, Run, TraverserProgress, TraverserStep,
                      Take, RunReturns, TraverserIoReturns, TraverserIo,
                      OpenReturns, StreamsReturn, ListReturns, TraverserFails,
                      WorkerThrows
<1>3. ~Planned /\ job # "plan"
  BY <1>2 DEF ComparisonInv, PlanInv
<1>4. RecordsStay
  BY <1>1 DEF RecordsStay
<1>5. ComparersInv'
  BY <1>1, <1>4, ComparersStay DEF ComparisonInv, ComparersInv
<1>6. EarlyInv'
  BY <1>1 DEF ComparisonInv, EarlyInv
<1> QED BY <1>1, <1>3, <1>5, <1>6
        DEF ComparisonInv, PlanInv, Planned, CompleteInv

\* Every step preserves it.
LEMMA NextComparison ==
    IInv /\ TraversalInv /\ ComparisonInv /\ [Next]_vars => ComparisonInv'
<1> SUFFICES ASSUME IInv, TraversalInv, ComparisonInv, [Next]_vars
             PROVE  ComparisonInv'
  OBVIOUS
<1>1. CASE JobProgress /\ ~\E e \in Endpoints : RunTraversal(e)
  BY <1>1, JobKeepsComparison, PlanKeepsComparison,
     CancelledPlanKeepsComparison, StartKeepsComparison,
     ComparedKeepsComparison DEF JobProgress
<1>2. CASE AttachReturns
  BY <1>2, JobKeepsComparison DEF AttachReturns
<1>3. CASE \E e \in Endpoints :
              \/ RunTraversal(e)
              \/ TraverserProgress(e)
              \/ \E w \in Workers[e] :
                    TraverserIoReturns(e, w) \/ TraverserFails(e, w)
  BY <1>3, TraversalKeepsComparison
<1>4. ASSUME NEW w \in ComparisonWorkers,
             ComparerProgress(w) \/ ComparerIoReturns(w) \/ ComparerThrows(w)
      PROVE  ComparisonInv'
  <2>1. CASE RegisterComparer(w) \/ ComparerThrows(w)
    BY <2>1, ComparerIdleSteps DEF RegisterComparer, ComparerThrows
  <2> QED BY <1>4, <2>1, NextTaskKeeps, OpenStreamKeeps, ReadKeeps
          DEF ComparerProgress, ComparerIoReturns
<1>5. CASE \/ RequestCancellation \/ CancelPending \/ Terminated
           \/ UNCHANGED vars
  <2>1. UNCHANGED <<fs, inventory, run, job, mismatches, operation_comparisons,
                    comparison_complete, comparisonVars>>
    BY <1>5 DEF RequestCancellation, CancelPending, Terminated, vars,
          traversalVars, traverserVars, stateVars
  <2> QED BY <2>1, ComparisonUnchanged
<1> QED BY <1>1, <1>2, <1>3, <1>4, <1>5 DEF Next

\* All the invariants hold throughout.
VerifierInv == IInv /\ OwnInv /\ TraversalInv /\ ComparisonInv

\* They are inductive together.
LEMMA VerifierInvariant == Spec => []VerifierInv
<1>1. Init => VerifierInv
  BY InitIInv, InitOwnInv, InitTraversal, InitComparison DEF VerifierInv
<1>2. VerifierInv /\ [Next]_vars => VerifierInv'
  BY NextIInv, NextOwn, NextTraversal, NextComparison DEF VerifierInv
<1> QED BY <1>1, <1>2, PTL DEF Spec

\* An inventory that Run has returned has every path of its volume, but for
\* what is below a directory that it knows to be incomplete.
NothingIsOverlooked ==
    \A e \in Endpoints :
        run[e] = "inventory" =>
            \A p \in DOMAIN fs[e] :
                p \in Objects(e) \/ IsBelowIncompleteDirectory(e, p)

\* However the workers of a traversal share the queue, whoever of them waits
\* while another lists a directory, and whichever calls fail: the workers stop
\* with an inventory only when there is nothing left to find.
THEOREM InventoriesAreComplete == Spec => []NothingIsOverlooked
<1>1. ASSUME VerifierInv PROVE NothingIsOverlooked
  <2> SUFFICES ASSUME NEW e \in Endpoints, run[e] = "inventory",
                      NEW p \in DOMAIN fs[e]
               PROVE  p \in Objects(e) \/ IsBelowIncompleteDirectory(e, p)
    BY DEF NothingIsOverlooked
  <2>1. fs \in Volumes /\ Inventory(e)
    BY <1>1 DEF VerifierInv, TraversalInv, ShapeInv, TraverserInv, InventoryInv
  <2> QED BY <2>1, InventoryIsComplete
<1> QED BY <1>1, VerifierInvariant, PTL

-----------------------------------------------------------------------------
(* What is reported is a difference of the volumes.                        *)

\* An object that BuildComparisonPlan reports as missing is missing.
LEMMA MissingIsReal ==
    ASSUME TraversalInv, \A e \in Endpoints : run[e] = "inventory",
           NEW m \in PlanRecords.mismatches, m.kind = "ObjectMissing"
    PROVE  \E e \in Endpoints : m.path \notin DOMAIN fs[e]
<1>1. m \in MissingObjects
  <2>1. m \notin TypeMismatches
    BY DEF TypeMismatches
  <2>2. m \notin StreamMismatches
    BY DEF StreamMismatches
  <2> QED BY <2>1, <2>2 DEF PlanRecords
<1>2. PICK e \in Endpoints :
         /\ m.path \notin Objects(Other(e))
         /\ ~IsBelowIncompleteDirectory(Other(e), m.path)
  BY <1>1 DEF MissingObjects, Objects
<1>3. Other(e) \in Endpoints
  BY DEF Other, Endpoints
<1>4. fs \in Volumes /\ Inventory(Other(e))
  BY <1>3 DEF TraversalInv, ShapeInv, TraverserInv, InventoryInv
<1>5. m.path \notin DOMAIN fs[Other(e)]
  BY <1>2, <1>3, <1>4, InventoryIsComplete
<1> QED BY <1>3, <1>5

\* The failures of both volumes that it compares are all that there are.
ExactlyOwn(c) ==
    /\ c.synthetic = OwnFailure("synthetic", c.path, c.operation)
    /\ c.real = OwnFailure("real", c.path, c.operation)

\* InventoryComparisons has no others.
LEMMA PlanIsExact ==
    ASSUME OwnInv, TraversalInv, \A e \in Endpoints : run[e] = "inventory",
           NEW c \in InventoryComparisons
    PROVE  ExactlyOwn(c)
<1>1. PICK p \in InBoth,
           operation \in {"OpenObject", "QueryStreams", "QueryDirectory"} :
              c = OperationComparison(p, 0, operation,
                                      FailureOf("synthetic", p, operation),
                                      FailureOf("real", p, operation))
  BY DEF InventoryComparisons
<1>2. /\ c.path = p
      /\ c.operation = operation
      /\ c.synthetic = FailureOf("synthetic", p, operation)
      /\ c.real = FailureOf("real", p, operation)
  BY <1>1 DEF OperationComparison
<1>3. operation \in ComparedOperations(p)
  BY <1>2 DEF InventoryComparisons
<1>4. ASSUME NEW e \in Endpoints
      PROVE  FailureOf(e, p, operation) = OwnFailure(e, p, operation)
  <2>1. p \in Objects(e)
    BY DEF InBoth, Objects, Endpoints
  <2>2. CASE operation = "OpenObject"
    BY <2>1, <2>2, FailuresAreExact
  <2>3. CASE operation # "OpenObject"
    <3>1. BothOpened(p) /\ (operation = "QueryDirectory" => IsDirectory(e, p))
      BY <1>3, <2>3 DEF ComparedOperations
    <3>2. OwnFailure(e, p, "OpenObject") = {}
      BY <2>1, <3>1, FailuresAreExact DEF BothOpened
    <3>3. fs[e][p].open = "none"
      BY <3>2, OwnFailureIs DEF Failure
    <3> QED BY <2>1, <2>3, <3>1, <3>3, FailuresAreExact
  <2> QED BY <2>2, <2>3
<1> QED BY <1>2, <1>4 DEF ExactlyOwn, Endpoints

\* A comparison worker reports contents that differ, and failures of both
\* volumes.
LEMMA ComparerRecords ==
    ASSUME IInv, NEW w \in ComparisonWorkers,
           ComparerProgress(w) \/ ComparerIoReturns(w) \/ ComparerThrows(w)
    PROVE  /\ UNCHANGED fs
           /\ \A m \in mismatches' :
                 m \in mismatches \/ m.kind = "StreamContents"
           /\ \A c \in operation_comparisons' :
                 c \in operation_comparisons \/ ExactlyOwn(c)
<1>0. UNCHANGED fs
  BY OthersKeepTraversal
<1>1. CASE RegisterComparer(w) \/ ComparerThrows(w) \/ ComparerReturns(w)
  BY <1>0, <1>1
     DEF RegisterComparer, ComparerThrows, ComparerReturns, stateVars
<1>2. CASE NextTask(w) /\ ~ComparerReturns(w)
  BY <1>0, <1>2 DEF NextTask
<1>3. ASSUME NEW operation, NEW s, NEW r,
             RecordOperation(w, operation, s, r),
             OwnFailure("synthetic", Task(w).path, operation) = Failure(s),
             OwnFailure("real", Task(w).path, operation) = Failure(r)
      PROVE  \A c \in operation_comparisons' :
                c \in operation_comparisons \/ ExactlyOwn(c)
  <2> DEFINE new == OperationComparison(Task(w).path, Task(w).stream,
                                        operation, Failure(s), Failure(r))
  <2>1. /\ new.path = Task(w).path
        /\ new.operation = operation
        /\ new.synthetic = Failure(s)
        /\ new.real = Failure(r)
    BY DEF OperationComparison
  <2>2. operation_comparisons' = operation_comparisons \cup {new}
    BY <1>3 DEF RecordOperation
  <2> HIDE DEF new
  <2>3. ExactlyOwn(new)
    BY <1>3, <2>1 DEF ExactlyOwn
  <2> QED BY <2>2, <2>3
<1>4. CASE OpenStreamReturns(w) /\ ~ComparerReturns(w)
  <2>1. ~cancellation_event
    BY <1>4 DEF OpenStreamReturns
  <2> DEFINE s == fs["synthetic"][Task(w).path].reopen
             r == fs["real"][Task(w).path].reopen
  <2>2. /\ UNCHANGED mismatches
        /\ \/ UNCHANGED operation_comparisons
           \/ RecordOperation(w, "OpenStream", s, r)
    BY <1>4, <2>1, UninterruptedResult DEF OpenStreamReturns
  <2>3. /\ OwnFailure("synthetic", Task(w).path, "OpenStream") = Failure(s)
        /\ OwnFailure("real", Task(w).path, "OpenStream") = Failure(r)
    BY OwnFailureIs
  <2> HIDE DEF s, r
  <2> QED BY <1>0, <1>3, <2>2, <2>3
<1>5. CASE ReadReturns(w) /\ ~ComparerReturns(w)
  <2>1. ~cancellation_event
    BY <1>5 DEF ReadReturns
  <2> DEFINE s == fs["synthetic"][Task(w).path].read
             r == fs["real"][Task(w).path].read
  <2>2. CompareChunk(w, s, r)
    BY <1>5, <2>1, UninterruptedResult DEF ReadReturns
  <2>3. /\ OwnFailure("synthetic", Task(w).path, "ReadStream") = Failure(s)
        /\ OwnFailure("real", Task(w).path, "ReadStream") = Failure(r)
    BY OwnFailureIs
  <2>4. /\ \/ UNCHANGED operation_comparisons
           \/ RecordOperation(w, "ReadStream", s, r)
        /\ \/ UNCHANGED mismatches
           \/ mismatches' = mismatches \cup ContentMismatch(w, s)
    BY <2>2 DEF CompareChunk
  <2> HIDE DEF s, r
  <2>5. \A m \in ContentMismatch(w, s) : m.kind = "StreamContents"
    BY DEF ContentMismatch
  <2> QED BY <1>0, <1>3, <2>3, <2>4, <2>5
<1> QED BY <1>1, <1>2, <1>4, <1>5 DEF ComparerProgress, ComparerIoReturns

\* Reports that are kept, or added like this, are real.
LEMMA ReportsAreReal ==
    ASSUME MismatchIsReal, UNCHANGED fs,
           \A m \in mismatches' :
              \/ m \in mismatches
              \/ m.kind = "ObjectMissing" =>
                    \E e \in Endpoints : m.path \notin DOMAIN fs[e],
           \A c \in operation_comparisons' :
              c \in operation_comparisons \/ ExactlyOwn(c)
    PROVE  MismatchIsReal'
<1>1. \A m \in mismatches' :
         m.kind = "ObjectMissing" =>
            \E e \in Endpoints : m.path \notin DOMAIN fs'[e]
  BY DEF MismatchIsReal
<1>2. ASSUME NEW c \in operation_comparisons'
      PROVE  /\ c.synthetic = OwnFailure("synthetic", c.path, c.operation)'
             /\ c.real = OwnFailure("real", c.path, c.operation)'
  <2>1. ExactlyOwn(c)
    BY DEF MismatchIsReal, ExactlyOwn
  <2> QED BY <2>1, OwnFailureUnchanged DEF ExactlyOwn
<1> QED BY <1>1, <1>2 DEF MismatchIsReal

\* Every step keeps what is reported real.
LEMMA NextMismatch ==
    ASSUME VerifierInv, MismatchIsReal, [Next]_vars
    PROVE  MismatchIsReal'
<1>0. ASSUME UNCHANGED <<fs, mismatches, operation_comparisons>>
      PROVE  MismatchIsReal'
  BY <1>0, ReportsAreReal
<1>1. CASE BuildComparisonPlan \/ BuildComparisonPlanCancelled
  <2>1. job = "plan" /\ UNCHANGED fs
    BY <1>1 DEF BuildComparisonPlan, BuildComparisonPlanCancelled, JobStep,
                traversalVars
  <2>2. \A e \in Endpoints : run[e] = "inventory"
    BY <2>1 DEF VerifierInv, ComparisonInv, PlanInv
  <2>3. /\ mismatches' \subseteq PlanRecords.mismatches
        /\ operation_comparisons' \subseteq PlanRecords.comparisons
    BY <1>1 DEF BuildComparisonPlan, BuildComparisonPlanCancelled
  <2>4. PlanRecords.comparisons = InventoryComparisons
    BY DEF PlanRecords
  <2>5. \A c \in operation_comparisons' : ExactlyOwn(c)
    BY <2>2, <2>3, <2>4, PlanIsExact DEF VerifierInv
  <2>6. \A m \in mismatches' :
           m.kind = "ObjectMissing" =>
              \E e \in Endpoints : m.path \notin DOMAIN fs[e]
    BY <2>2, <2>3, MissingIsReal DEF VerifierInv
  <2> QED BY <2>1, <2>5, <2>6, ReportsAreReal
<1>2. CASE \/ JobProgress /\ ~(BuildComparisonPlan
                                  \/ BuildComparisonPlanCancelled)
           \/ AttachReturns
  <2>1. UNCHANGED <<fs, mismatches, operation_comparisons>>
    BY <1>2 DEF JobProgress, AttachReturns, BeginJob, AttachReal,
          CleanupFailedAttachment, Detach, StartTraversal, Traversed,
          StartComparison, StartComparisonFails, Compared, PrintFinalResults,
          RunTraversal, Run, Attach, AttachThrows, PreparationThrows,
          traversalVars, stateVars
  <2> QED BY <1>0, <2>1
<1>3. ASSUME NEW e \in Endpoints,
             \/ TraverserProgress(e)
             \/ \E w \in Workers[e] :
                   TraverserIoReturns(e, w) \/ TraverserFails(e, w)
      PROVE  MismatchIsReal'
  <2>1. UNCHANGED <<mismatches, operation_comparisons>>
    BY <1>3 DEF TraverserProgress, TraverserIoReturns, TraverserFails,
                OfTraversal, stateVars
  <2>2. UNCHANGED fs
    BY <1>3 DEF TraverserProgress, TraverserStep, Take, WorkerReturns,
          RunReturns, TraverserIoReturns, TraverserIo, OpenReturns,
          StreamsReturn, ListReturns, TraverserFails, WorkerThrows
  <2> QED BY <1>0, <2>1, <2>2
<1>4. ASSUME NEW w \in ComparisonWorkers,
             ComparerProgress(w) \/ ComparerIoReturns(w) \/ ComparerThrows(w)
      PROVE  MismatchIsReal'
  BY <1>4, ComparerRecords, ReportsAreReal DEF VerifierInv
<1>5. CASE \/ RequestCancellation \/ CancelPending \/ Terminated
           \/ UNCHANGED vars
  <2>1. UNCHANGED <<fs, mismatches, operation_comparisons>>
    BY <1>5 DEF RequestCancellation, CancelPending, Terminated, vars,
          traversalVars, stateVars
  <2> QED BY <1>0, <2>1
<1> QED BY <1>1, <1>2, <1>3, <1>4, <1>5 DEF Next

\* Whatever the two volumes are like and however many workers there are: an
\* object that is reported as missing is missing, although the other volume's
\* inventory may lack it for want of a directory that could not be listed, and
\* the failures that are reported of an operation are exactly those of the two
\* volumes, for every worker's reports and at any moment of cancellation.
THEOREM MismatchesAreReal == Spec => []MismatchIsReal
<1>1. Init => MismatchIsReal
  BY DEF Init, MismatchIsReal
<1>2. VerifierInv /\ MismatchIsReal /\ [Next]_vars => MismatchIsReal'
  BY NextMismatch
<1> QED BY <1>1, <1>2, VerifierInvariant, PTL DEF Spec

-----------------------------------------------------------------------------
(* What is verified is equal.                                              *)

\* The two volumes agree about a chunk of a stream of p.
SameTask(t) ==
    /\ SameFailure(t.path, "OpenStream")
    /\ ~Failing(t.path, "OpenStream") =>
          /\ SameFailure(t.path, "ReadStream")
          /\ fs["real"][t.path].read \in {"none", "short"} =>
                SameChunk(t, fs["real"][t.path].read)

\* The state that VERIFIED is concluded from.
Verified ==
    /\ VerifierInv
    /\ ~MismatchFound
    /\ comparison_complete
    /\ Len(plan.tasks) = plan.available

\* No comparison of an operation on a path that is not excluded differs.
LEMMA NoneDiffers ==
    ASSUME ~MismatchFound, NEW c \in operation_comparisons,
           c.path \notin VssExcluded
    PROVE  c.synthetic = c.real
BY DEF MismatchFound, IsMatchedError

\* Failures are the same only of the same answers.
LEMMA SameAnswer ==
    ASSUME NEW s, NEW r, Failure(s) = Failure(r)
    PROVE  s = r
BY DEF Failure

\* A task that has been reported without a mismatch is one on which the
\* volumes agree.
LEMMA ReportedTaskIsSame ==
    ASSUME ~MismatchFound, NEW t, TaskReported(t), t.path \notin VssExcluded
    PROVE  SameTask(t)
<1> DEFINE so == fs["synthetic"][t.path].reopen
           ro == fs["real"][t.path].reopen
           sr == fs["synthetic"][t.path].read
           rr == fs["real"][t.path].read
<1>1. /\ OwnFailure("synthetic", t.path, "OpenStream") = Failure(so)
      /\ OwnFailure("real", t.path, "OpenStream") = Failure(ro)
      /\ OwnFailure("synthetic", t.path, "ReadStream") = Failure(sr)
      /\ OwnFailure("real", t.path, "ReadStream") = Failure(rr)
  BY OwnFailureIs
<1>2. CanReopen(t.path) <=> so = "none" /\ ro = "none"
  BY DEF CanReopen, Endpoints
<1>3. ASSUME NEW operation, NEW s, NEW r,
             OperationComparison(t.path, t.stream, operation, s, r)
                \in operation_comparisons
      PROVE  s = r
  BY <1>3, NoneDiffers DEF OperationComparison
<1>4. CASE ~CanReopen(t.path)
  <2>1. OperationComparison(t.path, t.stream, "OpenStream", Failure(so),
                            Failure(ro)) \in operation_comparisons
    BY <1>4 DEF TaskReported, OpenFailed
  <2>2. Failure(so) = Failure(ro)
    BY <1>3, <2>1
  <2>3. so = ro
    BY <2>2, SameAnswer
  <2>4. Failure(so) # {}
    BY <1>2, <1>4, <2>3 DEF Failure
  <2> QED BY <1>1, <2>2, <2>4 DEF SameTask, SameFailure, Failing
<1>5. CASE CanReopen(t.path)
  <2>1. SameFailure(t.path, "OpenStream")
    BY <1>1, <1>2, <1>5 DEF SameFailure
  <2>2. sr = rr
    <3>1. CASE \A e \in Endpoints : fs[e][t.path].read = "none"
      BY <3>1 DEF Endpoints
    <3>2. CASE OperationComparison(t.path, t.stream, "ReadStream", Failure(sr),
                                   Failure(rr)) \in operation_comparisons
      <4>1. Failure(sr) = Failure(rr)
        BY <1>3, <3>2
      <4> QED BY <4>1, SameAnswer
    <3> QED BY <1>5, <3>1, <3>2 DEF TaskReported
  <2>3. SameFailure(t.path, "ReadStream")
    BY <1>1, <2>2 DEF SameFailure
  <2>4. ASSUME rr \in {"none", "short"} PROVE SameChunk(t, rr)
    <3> DEFINE m == [kind |-> "StreamContents", path |-> t.path,
                     stream |-> t.stream]
    <3>1. SameChunk(t, rr) \/ m \in mismatches
      BY <1>5, <2>2, <2>4 DEF TaskReported
    <3>2. m.path \notin VssExcluded
      OBVIOUS
    <3> QED BY <3>1, <3>2 DEF MismatchFound
  <2> QED BY <2>1, <2>3, <2>4 DEF SameTask
<1> QED BY <1>4, <1>5

\* Every task there is has been planned, taken and reported.
LEMMA EveryTaskIsReported ==
    ASSUME Verified, NEW t \in ReadTasks
    PROVE  TaskReported(t)
<1>1. /\ plan.available = Cardinality(ReadTasks)
      /\ plan.tasks \in Seq(ReadTasks)
      /\ Len(plan.tasks) = Cardinality(ToSet(plan.tasks))
  BY DEF Verified, VerifierInv, ComparisonInv, PlanInv, Planned
<1>2. ToSet(plan.tasks) \subseteq ReadTasks
  BY <1>1 DEF ToSet
<1>3. IsFiniteSet(ReadTasks)
  BY ReadTasksFinite DEF Verified, VerifierInv
<1>4. Cardinality(ToSet(plan.tasks)) = Cardinality(ReadTasks)
  BY <1>1 DEF Verified
<1>5. ToSet(plan.tasks) = ReadTasks
  BY <1>2, <1>3, <1>4, FS_Subset
<1>6. PICK i \in DOMAIN plan.tasks : plan.tasks[i] = t
  BY <1>5 DEF ToSet
<1> QED BY <1>6 DEF Verified, VerifierInv, ComparisonInv, CompleteInv

\* What the plan has found is on record.
LEMMA VerifiedPlan ==
    ASSUME Verified
    PROVE  /\ OwnInv /\ TraversalInv /\ fs \in Volumes
           /\ \A e \in Endpoints : /\ run[e] = "inventory"
                                   /\ Inventory(e)
                                   /\ Incomplete(e) \subseteq VssExcluded
                                   /\ Objects(e) \subseteq DOMAIN fs[e]
           /\ \A m \in PlanRecords.mismatches : m.path \in VssExcluded
           /\ \A c \in InventoryComparisons :
                 c.path \notin VssExcluded => c.synthetic = c.real
<1>1. ComparisonInv /\ TraversalInv /\ OwnInv /\ Planned
  BY DEF Verified, VerifierInv, Planned
<1>2. /\ \A e \in Endpoints : run[e] = "inventory"
      /\ PlanRecords.mismatches \subseteq mismatches
      /\ PlanRecords.comparisons \subseteq operation_comparisons
      /\ ~ComparisonSurfaceIncomplete
  BY <1>1 DEF Verified, ComparisonInv, PlanInv, CompleteInv
<1>3. PlanRecords.comparisons = InventoryComparisons
  BY DEF PlanRecords
<1>4. \A e \in Endpoints : Incomplete(e) \subseteq VssExcluded
  BY <1>2 DEF ComparisonSurfaceIncomplete, Incomplete
<1>5. fs \in Volumes
      /\ \A e \in Endpoints : Inventory(e) /\ Objects(e) \subseteq DOMAIN fs[e]
  BY <1>1, <1>2 DEF TraversalInv, ShapeInv, TraverserInv, InventoryInv,
                    TraverserType
<1>6. \A m \in PlanRecords.mismatches : m.path \in VssExcluded
  BY <1>2 DEF Verified, MismatchFound
<1>7. \A c \in InventoryComparisons :
         c.path \notin VssExcluded => c.synthetic = c.real
  BY <1>2, <1>3, NoneDiffers DEF Verified
<1> QED BY <1>1, <1>2, <1>4, <1>5, <1>6, <1>7

\* An object of either volume is in both inventories, and of the same kind.
LEMMA VerifiedInBoth ==
    ASSUME Verified, NEW e \in Endpoints, NEW p \in DOMAIN fs[e],
           p \notin VssExcluded
    PROVE  p \in InBoth /\ SameKind(p)
<1>1. /\ Other(e) \in Endpoints
      /\ Endpoints = {e, Other(e)}
  BY DEF Other, Endpoints
<1>2. p \in Objects(e)
  BY VerifiedPlan, NothingElseIsMissing
<1>3. p \in Objects(Other(e))
  <2> SUFFICES ASSUME p \notin Objects(Other(e)) PROVE FALSE
    OBVIOUS
  <2>1. ~IsBelowIncompleteDirectory(Other(e), p)
    <3> SUFFICES ASSUME IsBelowIncompleteDirectory(Other(e), p) PROVE FALSE
      OBVIOUS
    <3>1. PICK d \in Incomplete(Other(e)) : d \in Ancestors[p]
      BY DEF IsBelowIncompleteDirectory, Incomplete
    <3>2. d \in VssExcluded
      BY <1>1, <3>1, VerifiedPlan
    <3>3. p \in Paths
      BY VerifiedPlan, VolumeFacts
    <3> QED BY <3>1, <3>2, <3>3, ExcludedBelow
  <2> DEFINE m == [kind |-> "ObjectMissing", path |-> p, stream |-> 0]
  <2>2. m \in MissingObjects
    BY <1>2, <2>1 DEF MissingObjects, Objects
  <2>3. m \in PlanRecords.mismatches
    BY <2>2 DEF PlanRecords
  <2>4. m.path = p
    OBVIOUS
  <2> HIDE DEF m
  <2> QED BY <2>3, <2>4, VerifiedPlan
<1>4. p \in InBoth
  BY <1>1, <1>2, <1>3 DEF InBoth, Objects, Endpoints
<1>5. SameKind(p)
  <2> SUFFICES ASSUME ~SameKind(p) PROVE FALSE
    OBVIOUS
  <2> DEFINE m == [kind |-> "ObjectType", path |-> p, stream |-> 0]
  <2>1. m \in TypeMismatches
    BY <1>4 DEF TypeMismatches
  <2>2. m \in PlanRecords.mismatches
    BY <2>1 DEF PlanRecords
  <2>3. m.path = p
    OBVIOUS
  <2> HIDE DEF m
  <2> QED BY <2>2, <2>3, VerifiedPlan
<1> QED BY <1>4, <1>5

\* The calls on it that make the inventory fail in the same way.
LEMMA VerifiedFailures ==
    ASSUME Verified, NEW p \in InBoth, p \notin VssExcluded
    PROVE  /\ SameFailure(p, "OpenObject")
           /\ ~Failing(p, "OpenObject") =>
                 /\ SameFailure(p, "QueryStreams")
                 /\ ~Failing(p, "QueryStreams") =>
                       \A e \in Endpoints : StreamsComplete(e, p)
<1>1. \A e \in Endpoints : p \in Objects(e)
  BY DEF InBoth, Objects, Endpoints
<1>2. ASSUME NEW operation \in {"OpenObject", "QueryStreams"},
             operation \in ComparedOperations(p)
      PROVE  FailureOf("synthetic", p, operation)
                = FailureOf("real", p, operation)
  <2> DEFINE s == FailureOf("synthetic", p, operation)
             r == FailureOf("real", p, operation)
             c == OperationComparison(p, 0, operation, s, r)
  <2>1. CASE s = {} /\ r = {}
    BY <2>1
  <2>2. CASE s # {} \/ r # {}
    <3>1. /\ c.path = p
          /\ c.operation = operation
          /\ c.synthetic = s
          /\ c.real = r
      BY DEF OperationComparison
    <3>2. c \in {OperationComparison(q, 0, o, FailureOf("synthetic", q, o),
                                     FailureOf("real", q, o)) :
                   q \in InBoth,
                   o \in {"OpenObject", "QueryStreams", "QueryDirectory"}}
      OBVIOUS
    <3> HIDE DEF c, s, r
    <3>3. c \in InventoryComparisons
      BY <1>2, <2>2, <3>1, <3>2 DEF InventoryComparisons
    <3> QED BY <3>1, <3>3, VerifiedPlan DEF s, r
  <2> QED BY <2>1, <2>2
<1>3. \A e \in Endpoints :
         FailureOf(e, p, "OpenObject") = OwnFailure(e, p, "OpenObject")
  BY <1>1, VerifiedPlan, FailuresAreExact
<1>4. SameFailure(p, "OpenObject")
  <2>1. "OpenObject" \in ComparedOperations(p)
    BY DEF ComparedOperations
  <2> QED BY <1>2, <1>3, <2>1 DEF SameFailure, Endpoints
<1>5. ASSUME ~Failing(p, "OpenObject")
      PROVE  /\ SameFailure(p, "QueryStreams")
             /\ ~Failing(p, "QueryStreams") =>
                   \A e \in Endpoints : StreamsComplete(e, p)
  <2>1. \A e \in Endpoints : OwnFailure(e, p, "OpenObject") = {}
    BY <1>4, <1>5 DEF SameFailure, Failing, Endpoints
  <2>2. ASSUME NEW e \in Endpoints PROVE fs[e][p].open = "none"
    <3>1. OwnFailure(e, p, "OpenObject") = Failure(fs[e][p].open)
      BY OwnFailureIs
    <3> QED BY <2>1, <3>1 DEF Failure
  <2>3. "QueryStreams" \in ComparedOperations(p)
    BY <1>3, <2>1 DEF ComparedOperations, BothOpened
  <2>4. \A e \in Endpoints :
           FailureOf(e, p, "QueryStreams") = OwnFailure(e, p, "QueryStreams")
    BY <1>1, <2>2, VerifiedPlan, FailuresAreExact
  <2>5. SameFailure(p, "QueryStreams")
    BY <1>2, <2>3, <2>4 DEF SameFailure, Endpoints
  <2>6. ASSUME ~Failing(p, "QueryStreams"), NEW e \in Endpoints
        PROVE  StreamsComplete(e, p)
    <3>1. OwnFailure(e, p, "QueryStreams") = {}
      BY <2>5, <2>6 DEF SameFailure, Failing, Endpoints
    <3>2. OwnFailure(e, p, "QueryStreams") = Failure(fs[e][p].query)
      BY OwnFailureIs
    <3>3. fs[e][p].query = "none"
      BY <3>1, <3>2 DEF Failure
    <3> QED BY <1>1, <2>2, <3>3, VerifiedPlan, FailuresAreExact
  <2> QED BY <2>5, <2>6
<1> QED BY <1>4, <1>5

\* Its streams have the same names and lengths.
LEMMA VerifiedStreams ==
    ASSUME Verified, NEW p \in StreamPairs, p \notin VssExcluded
    PROVE  /\ DOMAIN StreamsOf("synthetic", p) = SameLength(p)
           /\ DOMAIN StreamsOf("real", p) = SameLength(p)
<1> DEFINE s == StreamsOf("synthetic", p)
           r == StreamsOf("real", p)
<1>1. ASSUME NEW name, NEW kind,
             \/ /\ kind = "StreamMissing"
                /\ name \in (DOMAIN s \cup DOMAIN r) \ (DOMAIN s \cap DOMAIN r)
             \/ /\ kind = "StreamLength"
                /\ name \in DOMAIN s \cap DOMAIN r
                /\ Len(s[name]) # Len(r[name])
      PROVE  FALSE
  <2> DEFINE m == [kind |-> kind, path |-> p, stream |-> name]
  <2>1. m \in StreamMismatches
    BY <1>1 DEF StreamMismatches
  <2>2. m \in PlanRecords.mismatches
    BY <2>1 DEF PlanRecords
  <2>3. m.path = p
    OBVIOUS
  <2> HIDE DEF m
  <2> QED BY <2>2, <2>3, VerifiedPlan
<1>2. DOMAIN s = DOMAIN r
  BY <1>1
<1>3. \A name \in DOMAIN s : Len(s[name]) = Len(r[name])
  BY <1>1, <1>2
<1> QED BY <1>2, <1>3 DEF SameLength

\* A chunk that one volume has the other has as well, and there is a task for
\* it if the contents of p are compared.
LEMMA VerifiedChunk ==
    ASSUME Verified, NEW p \in StreamPairs, CompareContents(p),
           NEW name \in SameLength(p),
           NEW c \in DOMAIN StreamsOf("real", p)[name]
    PROVE  [path |-> p, stream |-> name, chunk |-> c] \in ReadTasks
<1>1. \A e \in Endpoints : p \in DOMAIN fs[e]
  BY VerifiedPlan DEF StreamPairs, InBoth, Objects, Endpoints
<1>2. ASSUME NEW e \in Endpoints
      PROVE  DOMAIN StreamsOf(e, p)[name] = 1 .. Len(StreamsOf(e, p)[name])
  <2>1. name \in DOMAIN fs[e][p].streams
    BY DEF SameLength, StreamsOf, Endpoints
  <2> QED BY <1>1, <2>1, VerifiedPlan, StreamsAssumption DEF StreamsOf
<1>3. c \in DOMAIN StreamsOf("synthetic", p)[name]
  BY <1>2 DEF SameLength, Endpoints
<1> QED BY <1>3 DEF ReadTasks

\* The contents of p are compared under its own name or under a smaller one,
\* which is the same file in both volumes.
LEMMA ComparedName ==
    ASSUME Verified, NEW p \in StreamPairs
    PROVE  \E q \in StreamPairs :
              /\ CompareContents(q)
              /\ \A e \in Endpoints : fs[e][q] = fs[e][p]
              /\ \/ q = p
                 \/ /\ q < p
                    /\ \A e \in Endpoints : fs[e][p].identity # 0
                    /\ PairedIdentity(q) = PairedIdentity(p)
<1>1. CASE CompareContents(p)
  BY <1>1
<1>2. CASE ~CompareContents(p)
  <2> DEFINE S == {q \in StreamPairs : PairedIdentity(q) = PairedIdentity(p)}
  <2>1. StreamPairs \subseteq DOMAIN fs["synthetic"] \cap DOMAIN fs["real"]
    BY VerifiedPlan DEF StreamPairs, InBoth, Objects, Endpoints
  <2>2. StreamPairs \subseteq Nat
    <3>1. "synthetic" \in Endpoints
      BY DEF Endpoints
    <3>2. DOMAIN fs["synthetic"] \subseteq Paths
      BY <3>1, VerifiedPlan, VolumeFacts
    <3> QED BY <2>1, <3>2, PathFacts
  <2>3. p \in S /\ S \in SUBSET Nat
    BY <2>2
  <2> HIDE DEF S
  <2>4. PICK q \in S : \A y \in S : q <= y
    BY <2>3, LeastNumber
  <2> USE DEF S
  <2>5. /\ \A e \in Endpoints : fs[e][p].identity # 0
        /\ \E y \in S : ~(p <= y)
    BY <1>2 DEF CompareContents
  <2>6. q < p
    BY <2>2, <2>3, <2>4, <2>5
  <2>7. CompareContents(q)
    BY <2>4 DEF CompareContents
  <2>8. \A e \in Endpoints : fs[e][q].identity = fs[e][p].identity
    BY <2>4 DEF PairedIdentity
  <2>9. ASSUME NEW e \in Endpoints PROVE fs[e][q] = fs[e][p]
    <3>1. p \in DOMAIN fs[e] /\ q \in DOMAIN fs[e]
      BY <2>1, <2>4 DEF Endpoints
    <3> QED BY <2>5, <2>8, <3>1, VerifiedPlan, VolumeFacts
  <2> QED BY <2>4, <2>5, <2>6, <2>7, <2>9
<1> QED BY <1>1, <1>2

\* What holds of a file by one name holds of it by the other.
LEMMA SameByName ==
    ASSUME NEW p, NEW q, \A e \in Endpoints : fs[e][q] = fs[e][p],
           NEW name, NEW c,
           SameTask([path |-> q, stream |-> name, chunk |-> c])
    PROVE  SameTask([path |-> p, stream |-> name, chunk |-> c])
<1> DEFINE t == [path |-> p, stream |-> name, chunk |-> c]
           u == [path |-> q, stream |-> name, chunk |-> c]
<1>0. fs["synthetic"][q] = fs["synthetic"][p] /\ fs["real"][q] = fs["real"][p]
  BY DEF Endpoints
<1>1. /\ t.path = p /\ t.stream = name /\ t.chunk = c
      /\ u.path = q /\ u.stream = name /\ u.chunk = c
  OBVIOUS
<1>2. SameTask(u)
  OBVIOUS
<1> HIDE DEF t, u
<1>3. ASSUME NEW operation \in {"OpenStream", "ReadStream"}
      PROVE  /\ SameFailure(p, operation) <=> SameFailure(q, operation)
             /\ Failing(p, operation) <=> Failing(q, operation)
  BY <1>0, OwnFailureIs DEF SameFailure, Failing
<1>4. \A error : SameChunk(t, error) <=> SameChunk(u, error)
  BY <1>0, <1>1 DEF SameChunk, Chunk, StreamsOf
<1>5. SameTask(t)
  BY <1>0, <1>1, <1>2, <1>3, <1>4 DEF SameTask
<1> QED BY <1>5 DEF t

\* An object that is in both inventories is the same in both volumes.
LEMMA VerifiedObject ==
    ASSUME Verified, NEW e \in Endpoints, NEW p \in DOMAIN fs[e],
           p \notin VssExcluded
    PROVE  ComparedAsExcluded(p) \/ SameObject(p)
<1> SUFFICES ASSUME ~ComparedAsExcluded(p) PROVE SameObject(p)
  OBVIOUS
<1>1. p \in InBoth /\ SameKind(p)
  BY VerifiedInBoth
<1>2. \A x \in Endpoints : InBoth \subseteq DOMAIN fs[x]
  BY VerifiedPlan DEF InBoth, Objects, Endpoints
<1>3. p \in DOMAIN fs["synthetic"] \cap DOMAIN fs["real"]
  BY <1>1, <1>2 DEF Endpoints
<1>4. /\ SameFailure(p, "OpenObject")
      /\ ~Failing(p, "OpenObject") => SameFailure(p, "QueryStreams")
  BY <1>1, VerifiedFailures
<1>5. ASSUME ~Failing(p, "OpenObject"), ~Failing(p, "QueryStreams")
      PROVE  /\ DOMAIN StreamsOf("synthetic", p) = SameLength(p)
             /\ DOMAIN StreamsOf("real", p) = SameLength(p)
             /\ \A name \in SameLength(p) :
                   \A c \in DOMAIN StreamsOf("real", p)[name] :
                      SameTask([path |-> p, stream |-> name, chunk |-> c])
  <2>1. p \in StreamPairs
    BY <1>1, <1>5, VerifiedFailures DEF StreamPairs
  <2>2. PICK q \in StreamPairs :
           /\ CompareContents(q)
           /\ \A x \in Endpoints : fs[x][q] = fs[x][p]
           /\ \/ q = p
              \/ /\ q < p
                 /\ \A x \in Endpoints : fs[x][p].identity # 0
                 /\ PairedIdentity(q) = PairedIdentity(p)
    BY <2>1, ComparedName
  <2>3. q \notin VssExcluded
    <3>1. q \in DOMAIN fs["synthetic"] \cap DOMAIN fs["real"]
      BY <1>2 DEF StreamPairs, Endpoints
    <3> QED BY <2>2, <3>1 DEF ComparedAsExcluded
  <2>4. StreamsOf("synthetic", q) = StreamsOf("synthetic", p)
        /\ StreamsOf("real", q) = StreamsOf("real", p)
    BY <2>2 DEF StreamsOf, Endpoints
  <2>5. SameLength(q) = SameLength(p)
    BY <2>4 DEF SameLength
  <2>6. ASSUME NEW name \in SameLength(p),
               NEW c \in DOMAIN StreamsOf("real", p)[name]
        PROVE  SameTask([path |-> p, stream |-> name, chunk |-> c])
    <3> DEFINE t == [path |-> q, stream |-> name, chunk |-> c]
    <3>1. t \in ReadTasks
      BY <2>2, <2>4, <2>5, VerifiedChunk
    <3>2. TaskReported(t) /\ t.path \notin VssExcluded
      BY <2>3, <3>1, EveryTaskIsReported
    <3> HIDE DEF t
    <3>3. SameTask(t)
      BY <3>2, ReportedTaskIsSame DEF Verified
    <3> QED BY <2>2, <3>3, SameByName DEF t
  <2> QED BY <2>1, <2>6, VerifiedStreams
<1>6. ASSUME NEW name, NEW c,
             SameTask([path |-> p, stream |-> name, chunk |-> c])
      PROVE  /\ SameFailure(p, "OpenStream")
             /\ ~Failing(p, "OpenStream") =>
                   /\ SameFailure(p, "ReadStream")
                   /\ fs["real"][p].read \in {"none", "short"} =>
                         SameChunk([path |-> p, stream |-> name, chunk |-> c],
                                   fs["real"][p].read)
  BY <1>6 DEF SameTask
<1> QED BY <1>1, <1>3, <1>4, <1>5, <1>6 DEF SameObject

\* Whatever the two volumes are like, and however many workers traverse and
\* compare them in whichever order: a verification that ends with the status
\* VERIFIED has compared everything.  Each inventory has every path that no
\* unreadable directory hides, the plan has a task for every chunk of every
\* pair of streams that are of the same length, each task is completed by one
\* worker and counted once, and what has been reported about it shows that the
\* volumes agree there.
THEOREM VerifiedVolumesAreEqual == Spec => []VerifiedMeansEqual
<1>1. ASSUME VerifierInv PROVE VerifiedMeansEqual
  <2>1. ASSUME Status = "VERIFIED" PROVE Verified
    <3>1. ~MismatchFound /\ comparison_complete
      BY <2>1 DEF Status
    <3>2. Len(plan.tasks) = plan.available
      BY <2>1, <3>1 DEF Status
    <3> QED BY <1>1, <3>1, <3>2 DEF Verified
  <2>2. ASSUME Verified,
               NEW p \in (UNION {DOMAIN fs[e] : e \in Endpoints})
                            \ VssExcluded
        PROVE  ComparedAsExcluded(p) \/ SameObject(p)
    <3>1. PICK e \in Endpoints : p \in DOMAIN fs[e]
      OBVIOUS
    <3>2. p \notin VssExcluded
      OBVIOUS
    <3> QED BY <2>2, <3>1, <3>2, VerifiedObject
  <2> QED BY <2>1, <2>2 DEF VerifiedMeansEqual
<1> QED BY <1>1, VerifierInvariant, PTL

=============================================================================
