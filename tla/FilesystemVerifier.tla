------------------------- MODULE FilesystemVerifier -------------------------
(***************************************************************************)
(* The verification of one volume: VerifyVolume attaches the two disks,    *)
(* CompareFilesystems makes their inventories (FilesystemTraversal), plans *)
(* the comparison and has workers read and compare the contents, the disks *)
(* are detached, and PrintFinalResults draws the conclusion.  Meanwhile    *)
(* FinishVerification, on the thread of the caller, interrupts whatever    *)
(* I/O is pending once the cancellation event is signaled.                 *)
(***************************************************************************)
EXTENDS FilesystemTraversal

CONSTANTS
    Streams,            \* names of streams; 0 is the unnamed one
    ComparisonWorkers   \* kVerificationWorkerCount threads

ASSUME ComparisonWorkersAssumption == IsFiniteSet(ComparisonWorkers)

\* A file has finitely many streams, each a sequence of chunks.
ASSUME StreamsAssumption ==
    \A volume \in Volumes, e \in Endpoints : \A p \in DOMAIN volume[e] :
        LET streams == volume[e][p].streams
        IN  /\ IsFiniteSet(DOMAIN streams)
            /\ \A name \in DOMAIN streams :
                  /\ Len(streams[name]) \in Nat
                  /\ DOMAIN streams[name] = 1 .. Len(streams[name])

VARIABLES
    job,                    \* where the thread of VerifyVolume is
    disks,                  \* the disks that are attached, in order
    plan,                   \* ComparisonPlan: tasks, and how many there were
    next_task,              \* of RunComparisonWorkers
    completed_tasks,
    comparer,               \* each ComparisonWorker's step, task and stream
    mismatches,             \* mismatches_
    operation_comparisons,  \* operation_comparisons_
    comparison_complete, failed, cleanup_failed,    \* of the observation
    exit_status             \* of FinishVerification

comparisonVars == <<plan, next_task, completed_tasks, comparer>>
stateVars == <<mismatches, operation_comparisons, comparison_complete, failed,
               cleanup_failed>>
vars == <<traversalVars, job, disks, comparisonVars, stateVars,
          exit_status>>

Init ==
    /\ TraversalInit
    /\ job = "begin"
    /\ disks = <<>>
    /\ plan = [tasks |-> <<>>, available |-> 0]
    /\ next_task = 1
    /\ completed_tasks = 0
    /\ comparer = [w \in ComparisonWorkers |->
                     [pc |-> "unborn", task |-> 0, stream |-> <<>>,
                      readable |-> FALSE, accepted |-> FALSE]]
    /\ mismatches = {}
    /\ operation_comparisons = {}
    /\ comparison_complete = FALSE
    /\ failed = FALSE
    /\ cleanup_failed = FALSE
    /\ exit_status = "none"

-----------------------------------------------------------------------------
(* VerifyVolume and AttachedVhdx.                                          *)

\* The threads of VerifyVolume and of the comparison workers.
Job == <<"job">>
Thread(w) == <<"comparison", w>>

JobStep(from, to) == job = from /\ job' = to

\* An exception, or a return: the disks that are attached are detached.
Unwind == IF disks = <<>> THEN "finish" ELSE "detach"

\* Mutant: the thread that attaches the disks is not registered.
BeginJobUnseen ==
    /\ JobStep("begin",
               IF cancellation_event THEN "finish" ELSE "attach_synthetic")
    /\ UNCHANGED <<traversalVars, disks, comparisonVars, stateVars, exit_status>>

BeginJob ==
    /\ JobStep("begin",
               IF cancellation_event THEN "finish" ELSE "attach_synthetic")
    /\ registered' = IF cancellation_event THEN registered
                     ELSE registered \cup {Job}
    /\ UNCHANGED <<fs, cancellation_event, traverserVars, aborted, disks, comparisonVars, stateVars, exit_status>>

Attaching == {"attach_synthetic", "attach_real"}

\* AttachedVhdx::Attach returns a disk; its registration ends with it.
Attach ==
    /\ job \in Attaching
    /\ job' = IF job = "attach_real" THEN "compare" ELSE "attached"
    /\ disks' = Append(disks, job)
    /\ Unregister(Job)
    /\ UNCHANGED <<fs, cancellation_event, traverserVars,
                   comparisonVars, stateVars, exit_status>>

\* The second disk, unless the event was signaled during the first.
AttachReal ==
    /\ JobStep("attached", IF cancellation_event THEN "detach" ELSE "attach_real")
    /\ registered' = IF cancellation_event THEN registered
                     ELSE registered \cup {Job}
    /\ UNCHANGED <<fs, cancellation_event, traverserVars, aborted, disks, comparisonVars, stateVars, exit_status>>

\* Opening or attaching the disk fails, by itself or because of cancellation.
AttachThrows ==
    /\ job \in Attaching
    /\ job' = Unwind
    /\ Unregister(Job)
    /\ failed' = TRUE
    /\ UNCHANGED <<fs, cancellation_event, traverserVars, disks,
                   comparisonVars, mismatches, operation_comparisons,
                   comparison_complete, cleanup_failed, exit_status>>

\* Mutant: the registration outlasts the failed attachment's cleanup.
PreparationThrowsRegistered ==
    /\ job \in Attaching
    /\ job' = "cleanup"
    /\ failed' = TRUE
    /\ UNCHANGED <<fs, cancellation_event, traverserVars, ioVars, disks, comparisonVars, mismatches,
                   operation_comparisons, comparison_complete, cleanup_failed,
                   exit_status>>

\* The disk is attached and its volume is not found: the registration is given
\* up before the disk is detached.
PreparationThrows ==
    /\ job \in Attaching
    /\ job' = "cleanup"
    /\ Unregister(Job)
    /\ failed' = TRUE
    /\ UNCHANGED <<fs, cancellation_event, traverserVars, disks,
                   comparisonVars, mismatches, operation_comparisons,
                   comparison_complete, cleanup_failed, exit_status>>

CleanupFailedAttachment ==
    /\ JobStep("cleanup", Unwind)
    /\ aborted' = aborted \ {Job}
    /\ registered' = registered \ {Job}
    /\ UNCHANGED <<fs, cancellation_event, traverserVars, disks,
                   comparisonVars, stateVars, exit_status>>

\* ~AttachedVhdx: the real disk first; a failure is recorded.
Detach ==
    /\ job = "detach"
    /\ disks' = Front(disks)
    /\ job' = IF Len(disks) = 1 THEN "finish" ELSE "detach"
    /\ cleanup_failed' \in {cleanup_failed, TRUE}
    /\ UNCHANGED <<traversalVars, comparisonVars, mismatches,
                   operation_comparisons, comparison_complete, failed,
                   exit_status>>

-----------------------------------------------------------------------------
(* CompareFilesystems: the traversals.                                     *)

JobUnchanged == <<disks, comparisonVars, exit_status>>

StartTraversal ==
    /\ JobStep("compare", IF cancellation_event THEN "detach" ELSE "traverse")
    /\ UNCHANGED <<traversalVars, stateVars, JobUnchanged>>

RunTraversal(e) ==
    /\ job = "traverse"
    /\ Run(e)
    /\ UNCHANGED <<job, stateVars, JobUnchanged>>

\* Both futures are waited for, by Get or by their destructors.
Traversed ==
    /\ job = "traverse"
    /\ \A e \in Endpoints : run[e] \in {"threw", "nullopt", "inventory"}
    /\ \/ /\ \E e \in Endpoints : run[e] = "threw"
          /\ job' = "detach"
          /\ failed' = TRUE
       \/ /\ \A e \in Endpoints : run[e] # "threw"
          /\ job' = IF cancellation_event
                       \/ \E e \in Endpoints : run[e] = "nullopt"
                    THEN "detach" ELSE "plan"
          /\ UNCHANGED failed
    /\ UNCHANGED <<traversalVars, mismatches, operation_comparisons,
                   comparison_complete, cleanup_failed, JobUnchanged>>

-----------------------------------------------------------------------------
(* BuildComparisonPlan: the two inventories side by side.                  *)

ComparisonSurfaceIncomplete ==
    \E e \in Endpoints : inventory[e].incomplete_directories \ VssExcluded # {}

InBoth == inventory["synthetic"].objects \cap inventory["real"].objects

\* FailuresForObject: the failure of one operation on p, if there is one.
FailureOf(e, p, operation) ==
    {i.failure : i \in {j \in inventory[e].issues :
                          j.path = p /\ j.operation = operation}}

OperationComparison(p, stream, operation, synthetic, real) ==
    [path |-> p, stream |-> stream, operation |-> operation,
     synthetic |-> synthetic, real |-> real]

IsMatchedError(c) == c.synthetic # {} /\ c.synthetic = c.real

BothOpened(p) == \A e \in Endpoints : FailureOf(e, p, "OpenObject") = {}

\* The operations of an object whose results are compared.
ComparedOperations(p) ==
    {"OpenObject"}
        \cup (IF BothOpened(p) THEN {"QueryStreams"} ELSE {})
        \cup (IF BothOpened(p) /\ \A e \in Endpoints : IsDirectory(e, p)
              THEN {"QueryDirectory"} ELSE {})

InventoryComparisons ==
    {c \in {OperationComparison(p, 0, operation,
                                FailureOf("synthetic", p, operation),
                                FailureOf("real", p, operation)) :
              p \in InBoth,
              operation \in {"OpenObject", "QueryStreams", "QueryDirectory"}} :
        /\ c.operation \in ComparedOperations(c.path)
        /\ c.synthetic # {} \/ c.real # {}}

Other(e) == IF e = "synthetic" THEN "real" ELSE "synthetic"

MissingObjects ==
    {[kind |-> "ObjectMissing", path |-> p, stream |-> 0] :
        p \in UNION {{q \in inventory[e].objects :
                         /\ q \notin inventory[Other(e)].objects
                         /\ ~IsBelowIncompleteDirectory(Other(e), q)} :
                     e \in Endpoints}}

SameKind(p) == fs["synthetic"][p].kind = fs["real"][p].kind

TypeMismatches ==
    {[kind |-> "ObjectType", path |-> p, stream |-> 0] :
        p \in {q \in InBoth : ~SameKind(q)}}

\* The pairs of objects whose streams are compared ...
StreamPairs ==
    {p \in InBoth : /\ SameKind(p)
                    /\ \A e \in Endpoints : StreamsComplete(e, p)}

StreamsOf(e, p) == fs[e][p].streams

\* ... by their names and lengths, for every name of a file ...
StreamMismatches ==
    UNION {LET s == StreamsOf("synthetic", p)
               r == StreamsOf("real", p)
           IN  {[kind |-> "StreamMissing", path |-> p, stream |-> name] :
                   name \in (DOMAIN s \cup DOMAIN r)
                               \ (DOMAIN s \cap DOMAIN r)}
               \cup
               {[kind |-> "StreamLength", path |-> p, stream |-> name] :
                   name \in {n \in DOMAIN s \cap DOMAIN r :
                                Len(s[n]) # Len(r[n])}}
           : p \in StreamPairs}

PairedIdentity(p) == [e \in Endpoints |-> fs[e][p].identity]

\* Mutant: a file is known by its identity in the synthetic volume alone.
CompareContentsOfSynthetic(p) ==
    \/ fs["synthetic"][p].identity = 0
    \/ \A q \in StreamPairs :
          fs["synthetic"][q].identity = fs["synthetic"][p].identity => p <= q

\* ... and by their contents, for the first name of a pair of files.
CompareContents(p) ==
    \/ \E e \in Endpoints : fs[e][p].identity = 0
    \/ \A q \in StreamPairs : PairedIdentity(q) = PairedIdentity(p) => p <= q

SameLength(p) ==
    {name \in DOMAIN StreamsOf("synthetic", p) \cap DOMAIN StreamsOf("real", p) :
        Len(StreamsOf("synthetic", p)[name]) = Len(StreamsOf("real", p)[name])}

\* AppendStreamTasks: one task for each chunk of kReadChunkSize.
ReadTasks ==
    UNION {UNION {{[path |-> p, stream |-> name, chunk |-> c] :
                     c \in DOMAIN StreamsOf("synthetic", p)[name]} :
                  name \in SameLength(p)} :
           p \in {q \in StreamPairs : CompareContents(q)}}

TaskBefore(a, b) ==
    \/ a.path < b.path
    \/ a.path = b.path /\ a.stream < b.stream
    \/ a.path = b.path /\ a.stream = b.stream /\ a.chunk < b.chunk

\* The tasks that are chosen, by the percentage, which is an input of the
\* verification: all of them, or a sample that is empty only if there are none.
Selections == {ReadTasks} \cup ((SUBSET ReadTasks) \ {{}})

PlanRecords ==
    [mismatches |-> MissingObjects \cup TypeMismatches \cup StreamMismatches,
     comparisons |-> InventoryComparisons]

BuildComparisonPlan ==
    /\ JobStep("plan", "start_workers")
    /\ ~cancellation_event
    /\ mismatches' = PlanRecords.mismatches
    /\ operation_comparisons' = PlanRecords.comparisons
    /\ \E chosen \in Selections :
          \E tasks \in InOrder(chosen, TaskBefore) :
             plan' = [tasks |-> tasks, available |-> Cardinality(ReadTasks)]
    /\ UNCHANGED <<traversalVars, disks, next_task,
                   completed_tasks, comparer, comparison_complete, failed,
                   cleanup_failed, exit_status>>

\* The event is found signaled on the way: at path last or, inside
\* AppendStreamTasks, at one of its streams.
BuildComparisonPlanCancelled ==
    /\ JobStep("plan", "detach")
    /\ cancellation_event
    /\ \E last \in UNION {inventory[e].objects : e \in Endpoints},
          name \in Streams, inside \in BOOLEAN :
          /\ inside => last \in StreamPairs
          /\ mismatches' =
                {m \in PlanRecords.mismatches :
                    \/ m.path < last
                    \/ inside /\ m.path = last /\ m.stream < name}
          /\ operation_comparisons' =
                {c \in PlanRecords.comparisons :
                    c.path < last \/ (inside /\ c.path = last)}
    /\ UNCHANGED <<traversalVars, comparison_complete, failed, cleanup_failed,
                   JobUnchanged>>

-----------------------------------------------------------------------------
(* RunComparisonWorkers.                                                   *)

StartComparison ==
    /\ JobStep("start_workers",
               IF cancellation_event THEN "detach" ELSE "compare_contents")
    /\ \E started \in SUBSET ComparisonWorkers :
          /\ Cardinality(started) = (IF cancellation_event THEN 0
                                     ELSE Min({Cardinality(ComparisonWorkers),
                                               Len(plan.tasks)}))
          /\ comparer' = [w \in ComparisonWorkers |->
                            [comparer[w] EXCEPT
                               !.pc = IF w \in started THEN "register"
                                      ELSE "done"]]
    /\ UNCHANGED <<traversalVars, stateVars, disks, plan, next_task,
                   completed_tasks, exit_status>>

\* A worker cannot be started: the ones that were stop at their next test.
\* What they may have compared before Fail is not looked at any more.
StartComparisonFails ==
    /\ JobStep("start_workers", "compare_contents")
    /\ ~cancellation_event
    /\ plan.tasks # <<>>
    /\ failed' = TRUE
    /\ \E started \in (SUBSET ComparisonWorkers) \ {ComparisonWorkers} :
          comparer' = [w \in ComparisonWorkers |->
                         [comparer[w] EXCEPT
                            !.pc = IF w \in started THEN "register"
                                   ELSE "done"]]
    /\ UNCHANGED <<traversalVars, mismatches, operation_comparisons,
                   comparison_complete, cleanup_failed, disks,
                   plan, next_task, completed_tasks, exit_status>>

RegisterComparer(w) ==
    /\ comparer[w].pc = "register"
    /\ comparer' = [comparer EXCEPT ![w].pc = "next"]
    /\ registered' = registered \cup {Thread(w)}
    /\ UNCHANGED <<fs, cancellation_event, traverserVars, aborted, job, disks, plan, next_task, completed_tasks, stateVars,
                   exit_status>>

\* The registration throws; Get will rethrow it.
ComparerThrows(w) ==
    /\ comparer[w].pc = "register"
    /\ comparer' = [comparer EXCEPT ![w].pc = "threw"]
    /\ UNCHANGED <<traversalVars, job, disks, plan, next_task,
                   completed_tasks, stateVars, exit_status>>

ComparerReturns(w) ==
    /\ comparer' = [comparer EXCEPT ![w].pc = "done"]
    /\ Unregister(Thread(w))
    /\ UNCHANGED <<fs, cancellation_event, traverserVars, job, disks, plan, next_task, completed_tasks, stateVars,
                   exit_status>>

ComparerUnchanged ==
    <<traversalVars, job, disks, plan, comparison_complete, failed,
      cleanup_failed, exit_status>>

Task(w) == plan.tasks[comparer[w].task]
StreamKey(task) == <<task.path, task.stream>>

\* Compare returns: TRUE counts the task as completed.
CompareReturns(w, done) ==
    completed_tasks' = IF done THEN completed_tasks + 1 ELSE completed_tasks

\* next_task.fetch_add; Compare opens the stream unless it has it open, and
\* gives the earlier answer for a stream that could not be opened.
NextTask(w) ==
    /\ comparer[w].pc = "next"
    /\ IF failed \/ cancellation_event THEN ComparerReturns(w)
       ELSE \/ /\ next_task > Len(plan.tasks)
               /\ ComparerReturns(w)
            \/ /\ next_task <= Len(plan.tasks)
               /\ next_task' = next_task + 1
               /\ LET key == StreamKey(plan.tasks[next_task])
                      same == comparer[w].stream = key
                      dead == same /\ ~comparer[w].readable
                  IN  /\ comparer' =
                            [comparer EXCEPT
                               ![w].task = next_task,
                               ![w].stream = key,
                               ![w].pc = IF ~same THEN "open"
                                         ELSE IF dead THEN "next" ELSE "read"]
                      /\ CompareReturns(w, dead /\ comparer[w].accepted)
               /\ UNCHANGED <<mismatches, operation_comparisons>>
               /\ UNCHANGED ComparerUnchanged

\* What an operation gave on one endpoint: {} or a set of one failure.
Failure(error) == IF error = "none" THEN {} ELSE {error}

RecordOperation(w, operation, synthetic, real) ==
    operation_comparisons' = operation_comparisons \cup
        {OperationComparison(Task(w).path, Task(w).stream, operation,
                             Failure(synthetic), Failure(real))}

\* FailuresMatch, or a difference that is expected.
Accepted(w, synthetic, real) ==
    synthetic = real \/ Task(w).path \in VssExcluded

\* OpenStream: the synthetic stream and then the real one.
OpenStreamReturns(w) ==
    /\ comparer[w].pc = "open"
    /\ \E s \in IoResults(Thread(w), fs["synthetic"][Task(w).path].reopen),
          r \in IoResults(Thread(w), fs["real"][Task(w).path].reopen) :
          IF cancellation_event THEN ComparerReturns(w)
          ELSE /\ \/ /\ s = "none" /\ r = "none"
                     /\ comparer' = [comparer EXCEPT ![w].pc = "read",
                                                     ![w].readable = TRUE]
                     /\ UNCHANGED <<completed_tasks, operation_comparisons>>
                  \/ /\ s # "none" \/ r # "none"
                     /\ comparer' = [comparer EXCEPT
                                       ![w].pc = "next",
                                       ![w].readable = FALSE,
                                       ![w].accepted = Accepted(w, s, r)]
                     /\ RecordOperation(w, "OpenStream", s, r)
                     /\ CompareReturns(w, Accepted(w, s, r))
               /\ UNCHANGED <<mismatches, next_task, ComparerUnchanged>>

\* A chunk is a pair of bytes, of which a short read transfers the first.
Transferred(chunk, error) == IF error = "short" THEN <<chunk[1]>> ELSE chunk

Chunk(e, task) == StreamsOf(e, task.path)[task.stream][task.chunk]

SameChunk(task, error) ==
    Transferred(Chunk("synthetic", task), error)
        = Transferred(Chunk("real", task), error)

ContentMismatch(w, error) ==
    IF SameChunk(Task(w), error) THEN {}
    ELSE {[kind |-> "StreamContents", path |-> Task(w).path,
           stream |-> Task(w).stream]}

\* Compare seeks and reads both streams, then compares what was read.
CompareChunk(w, s, r) ==
    /\ comparer' = [comparer EXCEPT ![w].pc = "next"]
    /\ \/ /\ s = r /\ s \in {"none", "short"}
          /\ mismatches' = mismatches \cup ContentMismatch(w, s)
          /\ CompareReturns(w, TRUE)
       \/ /\ ~(s = r /\ s \in {"none", "short"})
          /\ CompareReturns(w, Accepted(w, s, r))
          /\ UNCHANGED mismatches
    /\ IF s = "none" /\ r = "none" THEN UNCHANGED operation_comparisons
       ELSE RecordOperation(w, "ReadStream", s, r)
    /\ UNCHANGED <<next_task, ComparerUnchanged>>

\* Mutant: the event is not tested between the reads and their comparison.
ReadReturnsUntested(w) ==
    /\ comparer[w].pc = "read"
    /\ \E s \in IoResults(Thread(w), fs["synthetic"][Task(w).path].read),
          r \in IoResults(Thread(w), fs["real"][Task(w).path].read) :
          CompareChunk(w, s, r)

ReadReturns(w) ==
    /\ comparer[w].pc = "read"
    /\ \E s \in IoResults(Thread(w), fs["synthetic"][Task(w).path].read),
          r \in IoResults(Thread(w), fs["real"][Task(w).path].read) :
          IF cancellation_event THEN ComparerReturns(w)
          ELSE CompareChunk(w, s, r)

IsContentOperationMismatch(c) ==
    /\ c.path \notin VssExcluded
    /\ ~IsMatchedError(c)
    /\ c.operation \in {"OpenStream", "ReadStream"}

\* RunComparisonWorkers returns, and CompareFilesystems draws its conclusion.
Compared ==
    /\ JobStep("compare_contents", "detach")
    /\ \A w \in ComparisonWorkers : comparer[w].pc \in {"done", "threw"}
    /\ LET threw == \E w \in ComparisonWorkers : comparer[w].pc = "threw"
           compared == /\ ~threw
                       /\ ~failed
                       /\ ~cancellation_event
                       /\ \A c \in operation_comparisons :
                             ~IsContentOperationMismatch(c)
                       /\ completed_tasks = Len(plan.tasks)
       IN  /\ failed' = (failed \/ threw
                          \/ (compared /\ ComparisonSurfaceIncomplete))
           /\ comparison_complete' =
                 (compared /\ ~ComparisonSurfaceIncomplete)
    /\ UNCHANGED <<traversalVars, disks, comparisonVars, mismatches,
                   operation_comparisons, cleanup_failed, exit_status>>

-----------------------------------------------------------------------------
(* FinishVerification, on the caller's thread.                             *)

RequestCancellation ==
    /\ exit_status = "none"
    /\ ~cancellation_event
    /\ cancellation_event' = TRUE
    /\ UNCHANGED <<fs, traverserVars, ioVars, job, disks,
                   comparisonVars, stateVars, exit_status>>

\* The registered threads that are in a blocking call.
Pending ==
    {t \in registered :
        \/ t = Job /\ job \in Attaching \cup {"cleanup"}
        \/ \E e \in Endpoints : \E w \in Workers[e] :
              t = <<e, w>> /\ worker[e][w].pc \in InIo
        \/ \E w \in ComparisonWorkers :
              t = Thread(w) /\ comparer[w].pc \in {"open", "read"}}

\* It is repeated every kReporterPollInterval until the job is ready.
CancelPending ==
    /\ cancellation_event
    /\ ~(Pending \subseteq aborted)
    /\ aborted' = aborted \cup Pending
    /\ UNCHANGED <<fs, cancellation_event, traverserVars, registered, job,
                   disks, comparisonVars, stateVars, exit_status>>

\* mismatch_count is not 0.
MismatchFound ==
    \/ \E m \in mismatches : m.path \notin VssExcluded
    \/ \E c \in operation_comparisons :
          c.path \notin VssExcluded /\ ~IsMatchedError(c)

\* PrintFinalResults
Status ==
    CASE MismatchFound -> "MISMATCH"
      [] ~MismatchFound /\ ~comparison_complete -> "INCOMPLETE"
      [] OTHER -> IF Len(plan.tasks) # plan.available THEN "SAMPLE VERIFIED"
                  ELSE "VERIFIED"

PrintFinalResults ==
    /\ JobStep("finish", "ready")
    /\ exit_status' = IF Status \in {"VERIFIED", "SAMPLE VERIFIED"}
                           /\ ~failed /\ ~cleanup_failed
                      THEN "success" ELSE "failure"
    /\ UNCHANGED <<traversalVars, disks, comparisonVars, stateVars>>

\* The caller has its exit status.
Terminated == job = "ready" /\ UNCHANGED vars

-----------------------------------------------------------------------------

OfTraversal == <<job, stateVars, JobUnchanged>>

JobProgress ==
    \/ BeginJob \/ AttachReal \/ CleanupFailedAttachment \/ Detach
    \/ StartTraversal \/ Traversed
    \/ BuildComparisonPlan \/ BuildComparisonPlanCancelled
    \/ StartComparison \/ StartComparisonFails \/ Compared
    \/ PrintFinalResults
    \/ \E e \in Endpoints : RunTraversal(e)

AttachReturns == Attach \/ AttachThrows \/ PreparationThrows

TraverserProgress(e) == TraverserStep(e) /\ UNCHANGED OfTraversal

TraverserIoReturns(e, w) == TraverserIo(e, w) /\ UNCHANGED OfTraversal

TraverserFails(e, w) == WorkerThrows(e, w) /\ UNCHANGED OfTraversal

ComparerProgress(w) == RegisterComparer(w) \/ NextTask(w)

ComparerIoReturns(w) == OpenStreamReturns(w) \/ ReadReturns(w)

Next ==
    \/ JobProgress
    \/ AttachReturns
    \/ \E e \in Endpoints :
          \/ TraverserProgress(e)
          \/ \E w \in Workers[e] :
                TraverserIoReturns(e, w) \/ TraverserFails(e, w)
    \/ \E w \in ComparisonWorkers :
          ComparerProgress(w) \/ ComparerIoReturns(w) \/ ComparerThrows(w)
    \/ RequestCancellation
    \/ CancelPending
    \/ Terminated

\* Threads run and a detachment returns.  Other calls to the system may never
\* return by themselves; they do once CancelSynchronousIo has found them.
Fairness ==
    /\ WF_vars(JobProgress)
    /\ WF_vars(Job \in aborted /\ AttachThrows)
    /\ WF_vars(CancelPending)
    /\ \A e \in Endpoints :
          /\ WF_vars(TraverserProgress(e))
          /\ \A w \in Workers[e] :
                WF_vars(<<e, w>> \in aborted /\ TraverserIoReturns(e, w))
    /\ \A w \in ComparisonWorkers :
          /\ WF_vars(ComparerProgress(w))
          /\ WF_vars(Thread(w) \in aborted /\ ComparerIoReturns(w))

Spec == Init /\ [][Next]_vars /\ Fairness

-----------------------------------------------------------------------------
(* Properties.                                                             *)

\* What a call on path p gives when nobody interrupts it.
OwnFailure(e, p, operation) ==
    Failure(CASE operation = "OpenObject" -> fs[e][p].open
              [] operation = "QueryStreams" -> fs[e][p].query
              [] operation = "QueryDirectory" -> fs[e][p].list
              [] operation = "OpenStream" -> fs[e][p].reopen
              [] operation = "ReadStream" -> fs[e][p].read)

SameFailure(p, operation) ==
    OwnFailure("synthetic", p, operation) = OwnFailure("real", p, operation)

Failing(p, operation) == OwnFailure("synthetic", p, operation) # {}

\* The two volumes agree at p: the object, the failures of the calls that lead
\* to its contents and, as far as they can be read, the contents.
SameObject(p) ==
    /\ p \in DOMAIN fs["synthetic"] \cap DOMAIN fs["real"]
    /\ SameKind(p)
    /\ SameFailure(p, "OpenObject")
    /\ ~Failing(p, "OpenObject") =>
          /\ SameFailure(p, "QueryStreams")
          /\ ~Failing(p, "QueryStreams") =>
                /\ DOMAIN StreamsOf("synthetic", p) = SameLength(p)
                /\ DOMAIN StreamsOf("real", p) = SameLength(p)
                /\ \A name \in SameLength(p) :
                      \A c \in DOMAIN StreamsOf("real", p)[name] :
                         LET task == [path |-> p, stream |-> name, chunk |-> c]
                         IN  /\ SameFailure(p, "OpenStream")
                             /\ ~Failing(p, "OpenStream") =>
                                   /\ SameFailure(p, "ReadStream")
                                   /\ fs["real"][p].read \in {"none", "short"} =>
                                         SameChunk(task, fs["real"][p].read)

\* A file whose contents are compared under a name that is excluded.
ComparedAsExcluded(p) ==
    \E q \in VssExcluded :
        /\ q \in DOMAIN fs["synthetic"] \cap DOMAIN fs["real"]
        /\ q < p
        /\ \A e \in Endpoints : fs[e][p].identity # 0
        /\ PairedIdentity(q) = PairedIdentity(p)

\* The status VERIFIED, with the exit status of success, is given only to
\* volumes that agree at every path that is not excluded: whatever the workers
\* of either traversal and of the comparison did in which order, whichever of
\* them failed and whenever the event was signaled, nothing that differs was
\* left out of the inventories, of the plan or of the tasks.
VerifiedMeansEqual ==
    exit_status = "success" /\ Status = "VERIFIED" =>
        \A p \in (UNION {DOMAIN fs[e] : e \in Endpoints}) \ VssExcluded :
            ComparedAsExcluded(p) \/ SameObject(p)

\* What is reported is a difference of the volumes: an object reported as
\* missing is in one volume and not hidden in an unreadable directory of the
\* other, and a failure reported of an endpoint is the volume's own, never the
\* interruption of a call by the verifier itself.
MismatchIsReal ==
    /\ \A m \in mismatches :
          m.kind = "ObjectMissing" =>
              \E e \in Endpoints : m.path \notin DOMAIN fs[e]
    /\ \A c \in operation_comparisons :
          /\ c.synthetic = OwnFailure("synthetic", c.path, c.operation)
          /\ c.real = OwnFailure("real", c.path, c.operation)

\* The interruption of pending I/O never reaches the thread that detaches a
\* disk: a detachment that is interrupted leaves the disk attached.
DetachIsNotInterrupted ==
    job \in {"cleanup", "detach"} => Job \notin aborted

\* Once the event is signaled the verification ends, although no call to the
\* file systems returns by itself.
CancellationEndsVerification == cancellation_event ~> exit_status # "none"

=============================================================================
