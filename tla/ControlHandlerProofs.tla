----------------------- MODULE ControlHandlerProofs -------------------------
(***************************************************************************)
(* Proofs about the two processes that a console control event stops.      *)
(*                                                                         *)
(* ForegroundOperation, for any sets of operations and of calls of the     *)
(* control handler, and whatever the operations' cleanups wait for: the    *)
(* vector of contexts is exact, the handler returns TRUE only after all    *)
(* cleanup it is responsible for, and the monitor outlives the worker.     *)
(*                                                                         *)
(* DeviceFsShutdown, for any finite set of handles: the count of open files*)
(* is exact, nothing runs in a destroyed file system, files that are held  *)
(* open are served, no failure of the dispatcher is lost, and neither is   *)
(* the notification that ends the wait for open files.                     *)
(***************************************************************************)
EXTENDS ForegroundOperation, DeviceFsShutdown, FiniteSetTheorems, TLAPS

-----------------------------------------------------------------------------
(* The inductive invariant.                                                *)

\* writer_mutex_ is held by the worker that is in Update and by no other, and
\* the copy it changes is the vector as it still is.
MutexInv ==
    /\ \A o \in Ops : op[o] \in {"pushing", "erasing"} <=> writer_mutex_ = o
    /\ writer_mutex_ # Nobody => next = current_

\* The vector holds the contexts of the operations that have stored themselves
\* and have not yet stored their removal, also in the middle of an Update.
RegistryInv ==
    current_ = {o \in Ops : op[o] \in {"running", "erase", "erasing"}}

\* The guard signals completed_event last.
CompletedInv == completed_event = {o \in Ops : op[o] = "done"}

\* What a call of the handler has signaled is cancelled, and it returns TRUE
\* with all of its snapshot signaled and completed.
HandlerInv ==
    \A h \in Handlers :
        /\ signaled[h] \subseteq cancellation_event
        /\ handler[h] = "TRUE" => contexts[h] \subseteq completed_event
                                  /\ contexts[h] \subseteq signaled[h]

IInv ==
    /\ TypeOK
    /\ MutexInv
    /\ RegistryInv
    /\ CompletedInv
    /\ HandlerInv
    /\ MonitorOutlivesWorker

-----------------------------------------------------------------------------
(* Every action preserves the invariant, part by part.                     *)

\* Nothing has been started.
LEMMA InitIInv == Init => IInv
BY OpsAssumption DEF Init, IInv, TypeOK, MutexInv, RegistryInv, CompletedInv,
      HandlerInv, MonitorOutlivesWorker

\* Each variable keeps to its values.
LEMMA TypeStep == TypeOK /\ [Next]_vars => TypeOK'
  <1> SUFFICES ASSUME TypeOK, [Next]_vars
               PROVE  TypeOK'
    OBVIOUS
  <1> USE DEF TypeOK, workerVars, handlerVars
  <1>1. CASE \E o \in Ops : Start(o)
    BY <1>1 DEF Start
  <1>2. CASE \E o \in Ops : RegisterHandler(o)
    BY <1>2 DEF RegisterHandler
  <1>3. CASE \E o \in Ops : RegisterHandlerThrows(o)
    BY <1>3 DEF RegisterHandlerThrows
  <1>4. CASE \E o \in Ops : UpdateCopies(o)
    BY <1>4 DEF UpdateCopies, Updating
  <1>5. CASE \E o \in Ops : PushBack(o)
    BY <1>5 DEF PushBack
  <1>6. CASE \E o \in Ops : Erase(o)
    BY <1>6 DEF Erase
  <1>7. CASE \E o \in Ops : Complete(o)
    BY <1>7 DEF Complete
  <1>8. CASE \E o \in Ops : OperationEnds(o)
    BY <1>8 DEF OperationEnds
  <1>9. CASE \E o \in Ops : MonitorCancels(o)
    BY <1>9 DEF MonitorCancels
  <1>10. CASE \E o \in Ops : MonitorFails(o)
    BY <1>10 DEF MonitorFails
  <1>11. CASE \E o \in Ops : MonitorReturns(o)
    BY <1>11 DEF MonitorReturns
  <1>12. CASE \E o \in Ops : MonitorThrows(o)
    BY <1>12 DEF MonitorThrows
  <1>13. CASE \E h \in Handlers : HandlerReads(h)
    BY <1>13 DEF HandlerReads
  <1>14. CASE \E h \in Handlers, o \in Ops : HandlerSignals(h, o)
    BY <1>14 DEF HandlerSignals
  <1>15. CASE \E h \in Handlers : HandlerReturns(h)
    BY <1>15 DEF HandlerReturns
  <1>16. CASE UNCHANGED vars
    BY <1>16 DEF vars
  <1> QED
    BY <1>1, <1>2, <1>3, <1>4, <1>5, <1>6, <1>7, <1>8, <1>9, <1>10, <1>11,
       <1>12, <1>13, <1>14, <1>15, <1>16 DEF Next, Worker, Monitor, Handler

\* A worker enters Update only while nobody else is in it.
LEMMA MutexStep == TypeOK /\ MutexInv /\ [Next]_vars => MutexInv'
  <1> SUFFICES ASSUME TypeOK, MutexInv, [Next]_vars
               PROVE  MutexInv'
    OBVIOUS
  <1> USE OpsAssumption DEF TypeOK, MutexInv, workerVars, handlerVars
  <1>1. CASE \E o \in Ops : Start(o)
    BY <1>1 DEF Start
  <1>2. CASE \E o \in Ops : RegisterHandler(o)
    BY <1>2 DEF RegisterHandler
  <1>3. CASE \E o \in Ops : RegisterHandlerThrows(o)
    BY <1>3 DEF RegisterHandlerThrows
  <1>4. CASE \E o \in Ops : UpdateCopies(o)
    BY <1>4 DEF UpdateCopies, Updating
  <1>5. CASE \E o \in Ops : PushBack(o)
    BY <1>5 DEF PushBack
  <1>6. CASE \E o \in Ops : Erase(o)
    BY <1>6 DEF Erase
  <1>7. CASE \E o \in Ops : Complete(o)
    BY <1>7 DEF Complete
  <1>8. CASE \E o \in Ops : OperationEnds(o)
    BY <1>8 DEF OperationEnds
  <1>9. CASE \E o \in Ops : MonitorCancels(o)
    BY <1>9 DEF MonitorCancels
  <1>10. CASE \E o \in Ops : MonitorFails(o)
    BY <1>10 DEF MonitorFails
  <1>11. CASE \E o \in Ops : MonitorReturns(o)
    BY <1>11 DEF MonitorReturns
  <1>12. CASE \E o \in Ops : MonitorThrows(o)
    BY <1>12 DEF MonitorThrows
  <1>13. CASE \E h \in Handlers : HandlerReads(h)
    BY <1>13 DEF HandlerReads
  <1>14. CASE \E h \in Handlers, o \in Ops : HandlerSignals(h, o)
    BY <1>14 DEF HandlerSignals
  <1>15. CASE \E h \in Handlers : HandlerReturns(h)
    BY <1>15 DEF HandlerReturns
  <1>16. CASE UNCHANGED vars
    BY <1>16 DEF vars
  <1> QED
    BY <1>1, <1>2, <1>3, <1>4, <1>5, <1>6, <1>7, <1>8, <1>9, <1>10, <1>11,
       <1>12, <1>13, <1>14, <1>15, <1>16 DEF Next, Worker, Monitor, Handler

\* What Update stores is the vector of before, with its own change.
LEMMA RegistryStep ==
    TypeOK /\ MutexInv /\ RegistryInv /\ [Next]_vars => RegistryInv'
  <1> SUFFICES ASSUME TypeOK, MutexInv, RegistryInv, [Next]_vars
               PROVE  RegistryInv'
    OBVIOUS
  <1> USE OpsAssumption DEF TypeOK, MutexInv, RegistryInv, workerVars,
                             handlerVars
  <1>1. CASE \E o \in Ops : Start(o)
    BY <1>1 DEF Start
  <1>2. CASE \E o \in Ops : RegisterHandler(o)
    BY <1>2 DEF RegisterHandler
  <1>3. CASE \E o \in Ops : RegisterHandlerThrows(o)
    BY <1>3 DEF RegisterHandlerThrows
  <1>4. CASE \E o \in Ops : UpdateCopies(o)
    BY <1>4 DEF UpdateCopies, Updating
  <1>5. CASE \E o \in Ops : PushBack(o)
    BY <1>5 DEF PushBack
  <1>6. CASE \E o \in Ops : Erase(o)
    BY <1>6 DEF Erase
  <1>7. CASE \E o \in Ops : Complete(o)
    BY <1>7 DEF Complete
  <1>8. CASE \E o \in Ops : OperationEnds(o)
    BY <1>8 DEF OperationEnds
  <1>9. CASE \E o \in Ops : MonitorCancels(o)
    BY <1>9 DEF MonitorCancels
  <1>10. CASE \E o \in Ops : MonitorFails(o)
    BY <1>10 DEF MonitorFails
  <1>11. CASE \E o \in Ops : MonitorReturns(o)
    BY <1>11 DEF MonitorReturns
  <1>12. CASE \E o \in Ops : MonitorThrows(o)
    BY <1>12 DEF MonitorThrows
  <1>13. CASE \E h \in Handlers : HandlerReads(h)
    BY <1>13 DEF HandlerReads
  <1>14. CASE \E h \in Handlers, o \in Ops : HandlerSignals(h, o)
    BY <1>14 DEF HandlerSignals
  <1>15. CASE \E h \in Handlers : HandlerReturns(h)
    BY <1>15 DEF HandlerReturns
  <1>16. CASE UNCHANGED vars
    BY <1>16 DEF vars
  <1> QED
    BY <1>1, <1>2, <1>3, <1>4, <1>5, <1>6, <1>7, <1>8, <1>9, <1>10, <1>11,
       <1>12, <1>13, <1>14, <1>15, <1>16 DEF Next, Worker, Monitor, Handler

\* The event is signaled once and never reset.
LEMMA CompletedStep == TypeOK /\ CompletedInv /\ [Next]_vars => CompletedInv'
  <1> SUFFICES ASSUME TypeOK, CompletedInv, [Next]_vars
               PROVE  CompletedInv'
    OBVIOUS
  <1> USE DEF TypeOK, CompletedInv, workerVars, handlerVars
  <1>1. CASE \E o \in Ops : Start(o)
    BY <1>1 DEF Start
  <1>2. CASE \E o \in Ops : RegisterHandler(o)
    BY <1>2 DEF RegisterHandler
  <1>3. CASE \E o \in Ops : RegisterHandlerThrows(o)
    BY <1>3 DEF RegisterHandlerThrows
  <1>4. CASE \E o \in Ops : UpdateCopies(o)
    BY <1>4 DEF UpdateCopies, Updating
  <1>5. CASE \E o \in Ops : PushBack(o)
    BY <1>5 DEF PushBack
  <1>6. CASE \E o \in Ops : Erase(o)
    BY <1>6 DEF Erase
  <1>7. CASE \E o \in Ops : Complete(o)
    BY <1>7 DEF Complete
  <1>8. CASE \E o \in Ops : OperationEnds(o)
    BY <1>8 DEF OperationEnds
  <1>9. CASE \E o \in Ops : MonitorCancels(o)
    BY <1>9 DEF MonitorCancels
  <1>10. CASE \E o \in Ops : MonitorFails(o)
    BY <1>10 DEF MonitorFails
  <1>11. CASE \E o \in Ops : MonitorReturns(o)
    BY <1>11 DEF MonitorReturns
  <1>12. CASE \E o \in Ops : MonitorThrows(o)
    BY <1>12 DEF MonitorThrows
  <1>13. CASE \E h \in Handlers : HandlerReads(h)
    BY <1>13 DEF HandlerReads
  <1>14. CASE \E h \in Handlers, o \in Ops : HandlerSignals(h, o)
    BY <1>14 DEF HandlerSignals
  <1>15. CASE \E h \in Handlers : HandlerReturns(h)
    BY <1>15 DEF HandlerReturns
  <1>16. CASE UNCHANGED vars
    BY <1>16 DEF vars
  <1> QED
    BY <1>1, <1>2, <1>3, <1>4, <1>5, <1>6, <1>7, <1>8, <1>9, <1>10, <1>11,
       <1>12, <1>13, <1>14, <1>15, <1>16 DEF Next, Worker, Monitor, Handler

\* Events that are signaled stay signaled.
LEMMA HandlerStep == TypeOK /\ HandlerInv /\ [Next]_vars => HandlerInv'
  <1> SUFFICES ASSUME TypeOK, HandlerInv, [Next]_vars
               PROVE  HandlerInv'
    OBVIOUS
  <1> USE DEF TypeOK, HandlerInv, workerVars, handlerVars
  <1>1. CASE \E o \in Ops : Start(o)
    BY <1>1 DEF Start
  <1>2. CASE \E o \in Ops : RegisterHandler(o)
    BY <1>2 DEF RegisterHandler
  <1>3. CASE \E o \in Ops : RegisterHandlerThrows(o)
    BY <1>3 DEF RegisterHandlerThrows
  <1>4. CASE \E o \in Ops : UpdateCopies(o)
    BY <1>4 DEF UpdateCopies, Updating
  <1>5. CASE \E o \in Ops : PushBack(o)
    BY <1>5 DEF PushBack
  <1>6. CASE \E o \in Ops : Erase(o)
    BY <1>6 DEF Erase
  <1>7. CASE \E o \in Ops : Complete(o)
    BY <1>7 DEF Complete
  <1>8. CASE \E o \in Ops : OperationEnds(o)
    BY <1>8 DEF OperationEnds
  <1>9. CASE \E o \in Ops : MonitorCancels(o)
    BY <1>9 DEF MonitorCancels
  <1>10. CASE \E o \in Ops : MonitorFails(o)
    BY <1>10 DEF MonitorFails
  <1>11. CASE \E o \in Ops : MonitorReturns(o)
    BY <1>11 DEF MonitorReturns
  <1>12. CASE \E o \in Ops : MonitorThrows(o)
    BY <1>12 DEF MonitorThrows
  <1>13. CASE \E h \in Handlers : HandlerReads(h)
    BY <1>13 DEF HandlerReads
  <1>14. CASE \E h \in Handlers, o \in Ops : HandlerSignals(h, o)
    BY <1>14 DEF HandlerSignals
  <1>15. CASE \E h \in Handlers : HandlerReturns(h)
    BY <1>15 DEF HandlerReturns
  <1>16. CASE UNCHANGED vars
    BY <1>16 DEF vars
  <1> QED
    BY <1>1, <1>2, <1>3, <1>4, <1>5, <1>6, <1>7, <1>8, <1>9, <1>10, <1>11,
       <1>12, <1>13, <1>14, <1>15, <1>16 DEF Next, Worker, Monitor, Handler

\* The monitor leaves after completed_event or after the worker.
LEMMA MonitorStep ==
    TypeOK /\ CompletedInv /\ MonitorOutlivesWorker /\ [Next]_vars
        => MonitorOutlivesWorker'
  <1> SUFFICES ASSUME TypeOK, CompletedInv, MonitorOutlivesWorker, [Next]_vars
               PROVE  MonitorOutlivesWorker'
    OBVIOUS
  <1> USE DEF TypeOK, CompletedInv, MonitorOutlivesWorker, workerVars,
          handlerVars
  <1>1. CASE \E o \in Ops : Start(o)
    BY <1>1 DEF Start
  <1>2. CASE \E o \in Ops : RegisterHandler(o)
    BY <1>2 DEF RegisterHandler
  <1>3. CASE \E o \in Ops : RegisterHandlerThrows(o)
    BY <1>3 DEF RegisterHandlerThrows
  <1>4. CASE \E o \in Ops : UpdateCopies(o)
    BY <1>4 DEF UpdateCopies, Updating
  <1>5. CASE \E o \in Ops : PushBack(o)
    BY <1>5 DEF PushBack
  <1>6. CASE \E o \in Ops : Erase(o)
    BY <1>6 DEF Erase
  <1>7. CASE \E o \in Ops : Complete(o)
    BY <1>7 DEF Complete
  <1>8. CASE \E o \in Ops : OperationEnds(o)
    BY <1>8 DEF OperationEnds
  <1>9. CASE \E o \in Ops : MonitorCancels(o)
    BY <1>9 DEF MonitorCancels
  <1>10. CASE \E o \in Ops : MonitorFails(o)
    BY <1>10 DEF MonitorFails
  <1>11. CASE \E o \in Ops : MonitorReturns(o)
    BY <1>11 DEF MonitorReturns
  <1>12. CASE \E o \in Ops : MonitorThrows(o)
    BY <1>12 DEF MonitorThrows
  <1>13. CASE \E h \in Handlers : HandlerReads(h)
    BY <1>13 DEF HandlerReads
  <1>14. CASE \E h \in Handlers, o \in Ops : HandlerSignals(h, o)
    BY <1>14 DEF HandlerSignals
  <1>15. CASE \E h \in Handlers : HandlerReturns(h)
    BY <1>15 DEF HandlerReturns
  <1>16. CASE UNCHANGED vars
    BY <1>16 DEF vars
  <1> QED
    BY <1>1, <1>2, <1>3, <1>4, <1>5, <1>6, <1>7, <1>8, <1>9, <1>10, <1>11,
       <1>12, <1>13, <1>14, <1>15, <1>16 DEF Next, Worker, Monitor, Handler

\* IInv is an invariant of the operations in the foreground.
LEMMA IInvInvariant == Spec => []IInv
<1>1. IInv /\ [Next]_vars => IInv'
  BY TypeStep, MutexStep, RegistryStep, CompletedStep, HandlerStep, MonitorStep
     DEF IInv
<1> QED BY InitIInv, <1>1, PTL DEF Spec

-----------------------------------------------------------------------------
(* The properties, for any number of operations and calls of the handler.  *)

\* Every variable keeps to its values.
THEOREM TypeCorrect == Spec => []TypeOK
<1>1. IInv => TypeOK
  BY DEF IInv
<1> QED BY <1>1, IInvInvariant, PTL

\* Concurrent updates of the coherent vector are never lost: it holds the
\* contexts of the operations that run, whenever nobody is in Update.
THEOREM UpdatesAreNotLost == Spec => []NoUpdateLost
<1>1. IInv => NoUpdateLost
  BY OpsAssumption DEF IInv, TypeOK, MutexInv, RegistryInv, NoUpdateLost
<1> QED BY <1>1, IInvInvariant, PTL

\* ForegroundControlHandler returns TRUE, upon which Windows may end the
\* process, only when each operation it found has been cancelled and is done.
THEOREM HandlerWaitsForCleanup == Spec => []HandlerSeesCleanup
<1>1. IInv => HandlerSeesCleanup
  BY DEF IInv, TypeOK, CompletedInv, HandlerInv, HandlerSeesCleanup
<1> QED BY <1>1, IInvInvariant, PTL

\* RunForegroundOperation returns or throws only after its worker is done with
\* what the caller passed by reference.
THEOREM MonitorLeavesLast == Spec => []MonitorOutlivesWorker
<1>1. IInv => MonitorOutlivesWorker
  BY DEF IInv
<1> QED BY <1>1, IInvInvariant, PTL

-----------------------------------------------------------------------------
(* The life cycle: the inductive invariant.                                *)

OpenFiles == {c \in Clients : client[c] \in Open}

\* Where the main thread is while the dispatcher is in each of its states.
PhaseInv ==
    /\ main = "mount" => dispatcher = "none" /\ exit = "none"
    /\ dispatcher = "none" => main \in {"mount", "leave", "exited"}
    /\ dispatcher = "none" /\ main # "mount" => exit = "threw"
    /\ dispatcher \in {"stopping", "stopped"} =>
          main \in {"join", "test", "leave", "exited"}
    /\ main \in {"test", "leave", "exited"} =>
          dispatcher \in {"none", "stopped", "failed"}
    /\ members = "destroyed" => main \in {"test", "leave", "exited"}
    /\ main = "test" => dispatcher # "none"
    /\ main \notin {"mount", "serve"} /\ dispatcher # "none" =>
          g_stop_event = "set"

\* Callbacks run only between the start of the dispatcher and its end.
CallbackInv ==
    dispatcher \notin {"running", "stopping", "failing"} => NoCallback

\* Whoever reads the flag after the dispatcher has failed finds it set.
OutcomeInv ==
    /\ g_dispatcher_stopped_unexpectedly = "yes" <=>
          dispatcher \in {"event", "failed"}
    /\ exit = "success" => main \in {"leave", "exited"}
    /\ FailureIsReported

\* The count is the number of open files until DispatcherStopped gives up on
\* them.  fetch_sub therefore never wraps around.
CountInv ==
    IF dispatcher \in {"notify", "flag", "event", "failed"}
    THEN open_file_count_ = 0
    ELSE open_file_count_ = Cardinality(OpenFiles)

\* A file that is held is open; and once the count was seen to be zero, by a
\* dispatcher that can still be told to stop, none is held.
HeldInv ==
    /\ \A c \in held : client[c] \in {"open", "reading"}
    /\ (/\ main \in {"stop", "join", "test", "leave", "exited"}
        /\ dispatcher \in {"running", "stopping", "stopped"}) => held = {}

\* The wait for open files is never entered with a count of zero, and a main
\* thread that is blocked while the count is zero is about to be woken: by the
\* callback that closed the last file, or by DispatcherStopped.  The count may
\* change under a blocked main thread in any other way without a notification.
NoWakeupLost ==
    /\ main \in {"wait", "blocked"} => open_files # 0
    /\ main = "blocked" /\ open_file_count_ = 0 =>
          \/ \E c \in Clients : client[c] = "notifying"
          \/ dispatcher = "notify"

FsIInv ==
    /\ FsTypeOK
    /\ PhaseInv
    /\ CallbackInv
    /\ OutcomeInv
    /\ CountInv
    /\ HeldInv
    /\ NoWakeupLost

-----------------------------------------------------------------------------
(* How the actions change the set of open files.                           *)

\* The handles are finitely many, hence the open ones are.
LEMMA OpenFilesFinite == IsFiniteSet(OpenFiles)
BY ClientsAssumption, FS_Subset DEF OpenFiles

\* An Open that succeeds adds one to the count and to the set.
LEMMA OpenCounts ==
    ASSUME FsTypeOK, NEW c \in Clients, OpenReturns(c)
    PROVE  Cardinality(OpenFiles') = Cardinality(OpenFiles) + 1
<1>1. OpenFiles' = OpenFiles \cup {c}
  BY DEF FsTypeOK, OpenReturns, OpenFiles, Open
<1>2. c \notin OpenFiles
  BY DEF OpenReturns, OpenFiles, Open
<1> QED BY <1>1, <1>2, OpenFilesFinite, FS_AddElement

\* The fetch_sub of EndFileOpen takes one from both, and there is one to take.
LEMMA CloseCounts ==
    ASSUME FsTypeOK, NEW c \in Clients, EndFileOpen(c)
    PROVE  /\ Cardinality(OpenFiles') = Cardinality(OpenFiles) - 1
           /\ Cardinality(OpenFiles) \in Nat \ {0}
<1>1. OpenFiles' = OpenFiles \ {c}
  BY DEF FsTypeOK, EndFileOpen, OpenFiles, Open
<1>2. c \in OpenFiles
  BY DEF EndFileOpen, OpenFiles, Open
<1>3. Cardinality(OpenFiles') = Cardinality(OpenFiles) - 1
  BY <1>1, <1>2, OpenFilesFinite, FS_RemoveElement
<1>4. Cardinality(OpenFiles) \in Nat
  BY OpenFilesFinite, FS_CardinalityType
<1>5. Cardinality(OpenFiles) # 0
  BY <1>2, OpenFilesFinite, FS_EmptySet
<1> QED BY <1>3, <1>4, <1>5

\* No other step changes the set.
LEMMA OthersDoNotCount ==
    ASSUME FsTypeOK, [FsNext]_fsVars,
           ~\E c \in Clients : OpenReturns(c) \/ EndFileOpen(c)
    PROVE  OpenFiles' = OpenFiles
<1> USE DEF FsTypeOK, OpenFiles, Open, clientVars
<1>1. CASE RequestStop
  BY <1>1 DEF RequestStop, SetStopEvent
<1>2. CASE ControlSignal
  BY <1>2 DEF ControlSignal
<1>3. CASE SignalHandlerSetsEvent
  BY <1>3 DEF SignalHandlerSetsEvent, SetStopEvent
<1>4. CASE SignalHandlerReturns
  BY <1>4 DEF SignalHandlerReturns
<1>5. CASE \E c \in Clients : OpenBegins(c)
  BY <1>5 DEF OpenBegins, EnterCallback
<1>6. CASE \E c \in Clients : ReadBegins(c)
  BY <1>6 DEF ReadBegins, EnterCallback
<1>7. CASE \E c \in Clients : CleanupBegins(c)
  BY <1>7 DEF CleanupBegins, EnterCallback
<1>8. CASE \E c \in Clients : QueryBegins(c)
  BY <1>8 DEF QueryBegins, EnterCallback
<1>9. CASE \E c \in Clients : OpenRefused(c)
  BY <1>9 DEF OpenRefused
<1>10. CASE \E c \in Clients : ReadReturns(c)
  BY <1>10 DEF ReadReturns
<1>11. CASE \E c \in Clients : QueryReturns(c)
  BY <1>11 DEF QueryReturns
<1>12. CASE \E c \in Clients : EndFileOpenNotifies(c)
  BY <1>12 DEF EndFileOpenNotifies, Notify
<1>13. CASE DispatcherFails
  BY <1>13 DEF DispatcherFails
<1>14. CASE DispatcherStopsNormally
  BY <1>14 DEF DispatcherStopsNormally
<1>15. CASE DispatcherStopsAbnormally
  BY <1>15 DEF DispatcherStopsAbnormally
<1>16. CASE StoppedStores
  BY <1>16 DEF StoppedStores
<1>17. CASE StoppedNotifies
  BY <1>17 DEF StoppedNotifies, Notify
<1>18. CASE StoppedSetsFlag
  BY <1>18 DEF StoppedSetsFlag
<1>19. CASE StoppedSetsEvent
  BY <1>19 DEF StoppedSetsEvent, SetStopEvent
<1>20. CASE Mount
  BY <1>20 DEF Mount
<1>21. CASE MountThrows
  BY <1>21 DEF MountThrows
<1>22. CASE WaitStop
  BY <1>22 DEF WaitStop
<1>23. CASE LoadCount
  BY <1>23 DEF LoadCount
<1>24. CASE WaitCount
  BY <1>24 DEF WaitCount
<1>25. CASE StopDispatcher
  BY <1>25 DEF StopDispatcher
<1>26. CASE JoinDispatcher
  BY <1>26 DEF JoinDispatcher
<1>27. CASE TestUnexpected
  BY <1>27 DEF TestUnexpected
<1>28. CASE Leave
  BY <1>28 DEF Leave
<1>29. CASE UNCHANGED fsVars
  BY <1>29 DEF fsVars
<1> QED
  BY <1>1, <1>2, <1>3, <1>4, <1>5, <1>6, <1>7, <1>8, <1>9, <1>10, <1>11,
     <1>12, <1>13, <1>14, <1>15, <1>16, <1>17, <1>18, <1>19, <1>20, <1>21,
     <1>22, <1>23, <1>24, <1>25, <1>26, <1>27, <1>28, <1>29
     DEF FsNext, SignalHandler, CallbackReturns, Dispatcher, Main

-----------------------------------------------------------------------------
(* Every action preserves the invariant, part by part.                     *)

\* Nothing is mounted and nothing is open.
LEMMA FsInitIInv == FsInit => FsIInv
<1> SUFFICES ASSUME FsInit PROVE FsIInv
    OBVIOUS
<1>1. OpenFiles = {}
  BY DEF FsInit, OpenFiles, Open
<1>2. CountInv
  BY <1>1, FS_EmptySet DEF FsInit, CountInv
<1>3. FsTypeOK
  BY ClientsAssumption DEF FsInit, FsTypeOK, Callbacks
<1> QED
  BY <1>2, <1>3 DEF FsInit, FsIInv, PhaseInv, CallbackInv, NoCallback,
     Callbacks, OutcomeInv, FailureIsReported, HeldInv, NoWakeupLost

\* Each variable keeps to its values; that the count does, when a file is
\* closed, is CountInv.
LEMMA FsTypeStep ==
    CountInv /\ CallbackInv /\ FsTypeOK /\ [FsNext]_fsVars => FsTypeOK'
  <1> SUFFICES ASSUME CountInv, CallbackInv, FsTypeOK, [FsNext]_fsVars
               PROVE  FsTypeOK'
    OBVIOUS
  <1> USE DEF FsTypeOK, Callbacks, mainVars, clientVars, eventVars
  <1>1. CASE RequestStop
    BY <1>1 DEF RequestStop, SetStopEvent
  <1>2. CASE ControlSignal
    BY <1>2 DEF ControlSignal
  <1>3. CASE SignalHandlerSetsEvent
    BY <1>3 DEF SignalHandlerSetsEvent, SetStopEvent
  <1>4. CASE SignalHandlerReturns
    BY <1>4 DEF SignalHandlerReturns
  <1>5. CASE \E c \in Clients : OpenBegins(c)
    BY <1>5, ClientsAssumption DEF OpenBegins, EnterCallback
  <1>6. CASE \E c \in Clients : ReadBegins(c)
    BY <1>6 DEF ReadBegins, EnterCallback
  <1>7. CASE \E c \in Clients : CleanupBegins(c)
    BY <1>7 DEF CleanupBegins, EnterCallback
  <1>8. CASE \E c \in Clients : QueryBegins(c)
    BY <1>8 DEF QueryBegins, EnterCallback
  <1>9. CASE \E c \in Clients : OpenReturns(c)
    BY <1>9 DEF OpenReturns
  <1>10. CASE \E c \in Clients : OpenRefused(c)
    BY <1>10 DEF OpenRefused
  <1>11. CASE \E c \in Clients : ReadReturns(c)
    BY <1>11 DEF ReadReturns
  <1>12. CASE \E c \in Clients : QueryReturns(c)
    BY <1>12 DEF QueryReturns
  <1>13. CASE \E c \in Clients : EndFileOpen(c)
    <2>1. PICK c \in Clients : EndFileOpen(c)
      BY <1>13
    <2>2. open_file_count_ \in Nat \ {0}
      <3>1. dispatcher \in {"running", "stopping", "failing"}
        BY <2>1 DEF EndFileOpen, CallbackInv, NoCallback
      <3> QED
        BY <2>1, <3>1, CloseCounts DEF CountInv
    <2> QED
      BY <2>1, <2>2 DEF EndFileOpen
  <1>14. CASE \E c \in Clients : EndFileOpenNotifies(c)
    BY <1>14 DEF EndFileOpenNotifies, Notify
  <1>15. CASE DispatcherFails
    BY <1>15 DEF DispatcherFails
  <1>16. CASE DispatcherStopsNormally
    BY <1>16 DEF DispatcherStopsNormally
  <1>17. CASE DispatcherStopsAbnormally
    BY <1>17 DEF DispatcherStopsAbnormally
  <1>18. CASE StoppedStores
    BY <1>18 DEF StoppedStores
  <1>19. CASE StoppedNotifies
    BY <1>19 DEF StoppedNotifies, Notify
  <1>20. CASE StoppedSetsFlag
    BY <1>20 DEF StoppedSetsFlag
  <1>21. CASE StoppedSetsEvent
    BY <1>21 DEF StoppedSetsEvent, SetStopEvent
  <1>22. CASE Mount
    BY <1>22 DEF Mount
  <1>23. CASE MountThrows
    BY <1>23 DEF MountThrows
  <1>24. CASE WaitStop
    BY <1>24 DEF WaitStop
  <1>25. CASE LoadCount
    BY <1>25 DEF LoadCount
  <1>26. CASE WaitCount
    BY <1>26 DEF WaitCount
  <1>27. CASE StopDispatcher
    BY <1>27 DEF StopDispatcher
  <1>28. CASE JoinDispatcher
    BY <1>28 DEF JoinDispatcher
  <1>29. CASE TestUnexpected
    BY <1>29 DEF TestUnexpected
  <1>30. CASE Leave
    BY <1>30 DEF Leave
  <1>31. CASE UNCHANGED fsVars
    BY <1>31 DEF fsVars
  <1> QED
    BY <1>1, <1>2, <1>3, <1>4, <1>5, <1>6, <1>7, <1>8, <1>9, <1>10, <1>11,
       <1>12, <1>13, <1>14, <1>15, <1>16, <1>17, <1>18, <1>19, <1>20, <1>21,
       <1>22, <1>23, <1>24, <1>25, <1>26, <1>27, <1>28, <1>29, <1>30, <1>31
       DEF FsNext, SignalHandler, CallbackReturns, Dispatcher, Main

\* The main thread and the dispatcher move in step.
LEMMA PhaseStep == FsTypeOK /\ PhaseInv /\ [FsNext]_fsVars => PhaseInv'
  <1> SUFFICES ASSUME FsTypeOK, PhaseInv, [FsNext]_fsVars
               PROVE  PhaseInv'
    OBVIOUS
  <1> USE DEF FsTypeOK, PhaseInv, mainVars, clientVars, eventVars
  <1>1. CASE RequestStop
    BY <1>1 DEF RequestStop, SetStopEvent
  <1>2. CASE ControlSignal
    BY <1>2 DEF ControlSignal
  <1>3. CASE SignalHandlerSetsEvent
    BY <1>3 DEF SignalHandlerSetsEvent, SetStopEvent
  <1>4. CASE SignalHandlerReturns
    BY <1>4 DEF SignalHandlerReturns
  <1>5. CASE \E c \in Clients : OpenBegins(c)
    BY <1>5 DEF OpenBegins, EnterCallback
  <1>6. CASE \E c \in Clients : ReadBegins(c)
    BY <1>6 DEF ReadBegins, EnterCallback
  <1>7. CASE \E c \in Clients : CleanupBegins(c)
    BY <1>7 DEF CleanupBegins, EnterCallback
  <1>8. CASE \E c \in Clients : QueryBegins(c)
    BY <1>8 DEF QueryBegins, EnterCallback
  <1>9. CASE \E c \in Clients : OpenReturns(c)
    BY <1>9 DEF OpenReturns
  <1>10. CASE \E c \in Clients : OpenRefused(c)
    BY <1>10 DEF OpenRefused
  <1>11. CASE \E c \in Clients : ReadReturns(c)
    BY <1>11 DEF ReadReturns
  <1>12. CASE \E c \in Clients : QueryReturns(c)
    BY <1>12 DEF QueryReturns
  <1>13. CASE \E c \in Clients : EndFileOpen(c)
    BY <1>13 DEF EndFileOpen
  <1>14. CASE \E c \in Clients : EndFileOpenNotifies(c)
    BY <1>14 DEF EndFileOpenNotifies, Notify
  <1>15. CASE DispatcherFails
    BY <1>15 DEF DispatcherFails
  <1>16. CASE DispatcherStopsNormally
    BY <1>16 DEF DispatcherStopsNormally
  <1>17. CASE DispatcherStopsAbnormally
    BY <1>17 DEF DispatcherStopsAbnormally
  <1>18. CASE StoppedStores
    BY <1>18 DEF StoppedStores
  <1>19. CASE StoppedNotifies
    BY <1>19 DEF StoppedNotifies, Notify
  <1>20. CASE StoppedSetsFlag
    BY <1>20 DEF StoppedSetsFlag
  <1>21. CASE StoppedSetsEvent
    BY <1>21 DEF StoppedSetsEvent, SetStopEvent
  <1>22. CASE Mount
    BY <1>22 DEF Mount
  <1>23. CASE MountThrows
    BY <1>23 DEF MountThrows
  <1>24. CASE WaitStop
    BY <1>24 DEF WaitStop
  <1>25. CASE LoadCount
    BY <1>25 DEF LoadCount
  <1>26. CASE WaitCount
    BY <1>26 DEF WaitCount
  <1>27. CASE StopDispatcher
    BY <1>27 DEF StopDispatcher
  <1>28. CASE JoinDispatcher
    BY <1>28 DEF JoinDispatcher
  <1>29. CASE TestUnexpected
    BY <1>29 DEF TestUnexpected
  <1>30. CASE Leave
    BY <1>30 DEF Leave
  <1>31. CASE UNCHANGED fsVars
    BY <1>31 DEF fsVars
  <1> QED
    BY <1>1, <1>2, <1>3, <1>4, <1>5, <1>6, <1>7, <1>8, <1>9, <1>10, <1>11,
       <1>12, <1>13, <1>14, <1>15, <1>16, <1>17, <1>18, <1>19, <1>20, <1>21,
       <1>22, <1>23, <1>24, <1>25, <1>26, <1>27, <1>28, <1>29, <1>30, <1>31
       DEF FsNext, SignalHandler, CallbackReturns, Dispatcher, Main

\* A callback is entered only from a running dispatcher, which is left behind
\* only when none runs.
LEMMA CallbackStep ==
    FsTypeOK /\ PhaseInv /\ CallbackInv /\ [FsNext]_fsVars => CallbackInv'
  <1> SUFFICES ASSUME FsTypeOK, PhaseInv, CallbackInv, [FsNext]_fsVars
               PROVE  CallbackInv'
    OBVIOUS
  <1> USE DEF FsTypeOK, PhaseInv, CallbackInv, NoCallback, Callbacks, mainVars,
          clientVars, eventVars
  <1>1. CASE RequestStop
    BY <1>1 DEF RequestStop, SetStopEvent
  <1>2. CASE ControlSignal
    BY <1>2 DEF ControlSignal
  <1>3. CASE SignalHandlerSetsEvent
    BY <1>3 DEF SignalHandlerSetsEvent, SetStopEvent
  <1>4. CASE SignalHandlerReturns
    BY <1>4 DEF SignalHandlerReturns
  <1>5. CASE \E c \in Clients : OpenBegins(c)
    BY <1>5 DEF OpenBegins, EnterCallback
  <1>6. CASE \E c \in Clients : ReadBegins(c)
    BY <1>6 DEF ReadBegins, EnterCallback
  <1>7. CASE \E c \in Clients : CleanupBegins(c)
    BY <1>7 DEF CleanupBegins, EnterCallback
  <1>8. CASE \E c \in Clients : QueryBegins(c)
    BY <1>8 DEF QueryBegins, EnterCallback
  <1>9. CASE \E c \in Clients : OpenReturns(c)
    BY <1>9 DEF OpenReturns
  <1>10. CASE \E c \in Clients : OpenRefused(c)
    BY <1>10 DEF OpenRefused
  <1>11. CASE \E c \in Clients : ReadReturns(c)
    BY <1>11 DEF ReadReturns
  <1>12. CASE \E c \in Clients : QueryReturns(c)
    BY <1>12 DEF QueryReturns
  <1>13. CASE \E c \in Clients : EndFileOpen(c)
    BY <1>13 DEF EndFileOpen
  <1>14. CASE \E c \in Clients : EndFileOpenNotifies(c)
    BY <1>14 DEF EndFileOpenNotifies, Notify
  <1>15. CASE DispatcherFails
    BY <1>15 DEF DispatcherFails
  <1>16. CASE DispatcherStopsNormally
    BY <1>16 DEF DispatcherStopsNormally
  <1>17. CASE DispatcherStopsAbnormally
    BY <1>17 DEF DispatcherStopsAbnormally
  <1>18. CASE StoppedStores
    BY <1>18 DEF StoppedStores
  <1>19. CASE StoppedNotifies
    BY <1>19 DEF StoppedNotifies, Notify
  <1>20. CASE StoppedSetsFlag
    BY <1>20 DEF StoppedSetsFlag
  <1>21. CASE StoppedSetsEvent
    BY <1>21 DEF StoppedSetsEvent, SetStopEvent
  <1>22. CASE Mount
    BY <1>22 DEF Mount
  <1>23. CASE MountThrows
    BY <1>23 DEF MountThrows
  <1>24. CASE WaitStop
    BY <1>24 DEF WaitStop
  <1>25. CASE LoadCount
    BY <1>25 DEF LoadCount
  <1>26. CASE WaitCount
    BY <1>26 DEF WaitCount
  <1>27. CASE StopDispatcher
    BY <1>27 DEF StopDispatcher
  <1>28. CASE JoinDispatcher
    BY <1>28 DEF JoinDispatcher
  <1>29. CASE TestUnexpected
    BY <1>29 DEF TestUnexpected
  <1>30. CASE Leave
    BY <1>30 DEF Leave
  <1>31. CASE UNCHANGED fsVars
    BY <1>31 DEF fsVars
  <1> QED
    BY <1>1, <1>2, <1>3, <1>4, <1>5, <1>6, <1>7, <1>8, <1>9, <1>10, <1>11,
       <1>12, <1>13, <1>14, <1>15, <1>16, <1>17, <1>18, <1>19, <1>20, <1>21,
       <1>22, <1>23, <1>24, <1>25, <1>26, <1>27, <1>28, <1>29, <1>30, <1>31
       DEF FsNext, SignalHandler, CallbackReturns, Dispatcher, Main

\* The flag is set before the event, and tested after the dispatcher has
\* ended.
LEMMA OutcomeStep ==
    FsTypeOK /\ PhaseInv /\ OutcomeInv /\ [FsNext]_fsVars => OutcomeInv'
  <1> SUFFICES ASSUME FsTypeOK, PhaseInv, OutcomeInv, [FsNext]_fsVars
               PROVE  OutcomeInv'
    OBVIOUS
  <1> USE DEF FsTypeOK, PhaseInv, OutcomeInv, FailureIsReported, mainVars,
          clientVars, eventVars
  <1>1. CASE RequestStop
    BY <1>1 DEF RequestStop, SetStopEvent
  <1>2. CASE ControlSignal
    BY <1>2 DEF ControlSignal
  <1>3. CASE SignalHandlerSetsEvent
    BY <1>3 DEF SignalHandlerSetsEvent, SetStopEvent
  <1>4. CASE SignalHandlerReturns
    BY <1>4 DEF SignalHandlerReturns
  <1>5. CASE \E c \in Clients : OpenBegins(c)
    BY <1>5 DEF OpenBegins, EnterCallback
  <1>6. CASE \E c \in Clients : ReadBegins(c)
    BY <1>6 DEF ReadBegins, EnterCallback
  <1>7. CASE \E c \in Clients : CleanupBegins(c)
    BY <1>7 DEF CleanupBegins, EnterCallback
  <1>8. CASE \E c \in Clients : QueryBegins(c)
    BY <1>8 DEF QueryBegins, EnterCallback
  <1>9. CASE \E c \in Clients : OpenReturns(c)
    BY <1>9 DEF OpenReturns
  <1>10. CASE \E c \in Clients : OpenRefused(c)
    BY <1>10 DEF OpenRefused
  <1>11. CASE \E c \in Clients : ReadReturns(c)
    BY <1>11 DEF ReadReturns
  <1>12. CASE \E c \in Clients : QueryReturns(c)
    BY <1>12 DEF QueryReturns
  <1>13. CASE \E c \in Clients : EndFileOpen(c)
    BY <1>13 DEF EndFileOpen
  <1>14. CASE \E c \in Clients : EndFileOpenNotifies(c)
    BY <1>14 DEF EndFileOpenNotifies, Notify
  <1>15. CASE DispatcherFails
    BY <1>15 DEF DispatcherFails
  <1>16. CASE DispatcherStopsNormally
    BY <1>16 DEF DispatcherStopsNormally
  <1>17. CASE DispatcherStopsAbnormally
    BY <1>17 DEF DispatcherStopsAbnormally
  <1>18. CASE StoppedStores
    BY <1>18 DEF StoppedStores
  <1>19. CASE StoppedNotifies
    BY <1>19 DEF StoppedNotifies, Notify
  <1>20. CASE StoppedSetsFlag
    BY <1>20 DEF StoppedSetsFlag
  <1>21. CASE StoppedSetsEvent
    BY <1>21 DEF StoppedSetsEvent, SetStopEvent
  <1>22. CASE Mount
    BY <1>22 DEF Mount
  <1>23. CASE MountThrows
    BY <1>23 DEF MountThrows
  <1>24. CASE WaitStop
    BY <1>24 DEF WaitStop
  <1>25. CASE LoadCount
    BY <1>25 DEF LoadCount
  <1>26. CASE WaitCount
    BY <1>26 DEF WaitCount
  <1>27. CASE StopDispatcher
    BY <1>27 DEF StopDispatcher
  <1>28. CASE JoinDispatcher
    BY <1>28 DEF JoinDispatcher
  <1>29. CASE TestUnexpected
    BY <1>29 DEF TestUnexpected
  <1>30. CASE Leave
    BY <1>30 DEF Leave
  <1>31. CASE UNCHANGED fsVars
    BY <1>31 DEF fsVars
  <1> QED
    BY <1>1, <1>2, <1>3, <1>4, <1>5, <1>6, <1>7, <1>8, <1>9, <1>10, <1>11,
       <1>12, <1>13, <1>14, <1>15, <1>16, <1>17, <1>18, <1>19, <1>20, <1>21,
       <1>22, <1>23, <1>24, <1>25, <1>26, <1>27, <1>28, <1>29, <1>30, <1>31
       DEF FsNext, SignalHandler, CallbackReturns, Dispatcher, Main

\* The count follows the set.
LEMMA CountStep ==
    FsTypeOK /\ PhaseInv /\ CallbackInv /\ CountInv /\ [FsNext]_fsVars
        => CountInv'
<1> SUFFICES ASSUME FsTypeOK, PhaseInv, CallbackInv, CountInv, [FsNext]_fsVars
             PROVE  CountInv'
    OBVIOUS
<1>1. ASSUME NEW c \in Clients, OpenReturns(c) PROVE CountInv'
  <2>1. dispatcher \in {"running", "stopping", "failing"}
    BY <1>1 DEF OpenReturns, CallbackInv, NoCallback, Callbacks, FsTypeOK
  <2>2. open_file_count_' = open_file_count_ + 1 /\ dispatcher' = dispatcher
    BY <1>1 DEF OpenReturns
  <2> QED BY <1>1, <2>1, <2>2, OpenCounts DEF CountInv
<1>2. ASSUME NEW c \in Clients, EndFileOpen(c) PROVE CountInv'
  <2>1. dispatcher \in {"running", "stopping", "failing"}
    BY <1>2 DEF EndFileOpen, CallbackInv, NoCallback, Callbacks, FsTypeOK
  <2>2. open_file_count_' = open_file_count_ - 1 /\ dispatcher' = dispatcher
    BY <1>2 DEF EndFileOpen
  <2> QED BY <1>2, <2>1, <2>2, CloseCounts DEF CountInv
<1>3. CASE ~\E c \in Clients : OpenReturns(c) \/ EndFileOpen(c)
  <2>1. Cardinality(OpenFiles') = Cardinality(OpenFiles)
    BY <1>3, OthersDoNotCount
  <2> USE DEF CountInv, FsTypeOK, mainVars, clientVars, eventVars
  <2>2. CASE RequestStop
    BY <2>1, <2>2 DEF RequestStop, SetStopEvent
  <2>3. CASE ControlSignal
    BY <2>1, <2>3 DEF ControlSignal
  <2>4. CASE SignalHandlerSetsEvent
    BY <2>1, <2>4 DEF SignalHandlerSetsEvent, SetStopEvent
  <2>5. CASE SignalHandlerReturns
    BY <2>1, <2>5 DEF SignalHandlerReturns
  <2>6. CASE \E c \in Clients : OpenBegins(c)
    BY <2>1, <2>6 DEF OpenBegins, EnterCallback
  <2>7. CASE \E c \in Clients : ReadBegins(c)
    BY <2>1, <2>7 DEF ReadBegins, EnterCallback
  <2>8. CASE \E c \in Clients : CleanupBegins(c)
    BY <2>1, <2>8 DEF CleanupBegins, EnterCallback
  <2>9. CASE \E c \in Clients : QueryBegins(c)
    BY <2>1, <2>9 DEF QueryBegins, EnterCallback
  <2>10. CASE \E c \in Clients : OpenRefused(c)
    BY <2>1, <2>10 DEF OpenRefused
  <2>11. CASE \E c \in Clients : ReadReturns(c)
    BY <2>1, <2>11 DEF ReadReturns
  <2>12. CASE \E c \in Clients : QueryReturns(c)
    BY <2>1, <2>12 DEF QueryReturns
  <2>13. CASE \E c \in Clients : EndFileOpenNotifies(c)
    BY <2>1, <2>13 DEF EndFileOpenNotifies, Notify
  <2>14. CASE DispatcherFails
    BY <2>1, <2>14 DEF DispatcherFails
  <2>15. CASE DispatcherStopsNormally
    BY <2>1, <2>15 DEF DispatcherStopsNormally
  <2>16. CASE DispatcherStopsAbnormally
    BY <2>1, <2>16 DEF DispatcherStopsAbnormally
  <2>17. CASE StoppedStores
    BY <2>1, <2>17 DEF StoppedStores
  <2>18. CASE StoppedNotifies
    BY <2>1, <2>18 DEF StoppedNotifies, Notify
  <2>19. CASE StoppedSetsFlag
    BY <2>1, <2>19 DEF StoppedSetsFlag
  <2>20. CASE StoppedSetsEvent
    BY <2>1, <2>20 DEF StoppedSetsEvent, SetStopEvent
  <2>21. CASE Mount
    BY <2>1, <2>21 DEF Mount, PhaseInv
  <2>22. CASE MountThrows
    BY <2>1, <2>22 DEF MountThrows
  <2>23. CASE WaitStop
    BY <2>1, <2>23 DEF WaitStop
  <2>24. CASE LoadCount
    BY <2>1, <2>24 DEF LoadCount
  <2>25. CASE WaitCount
    BY <2>1, <2>25 DEF WaitCount
  <2>26. CASE StopDispatcher
    BY <2>1, <2>26 DEF StopDispatcher
  <2>27. CASE JoinDispatcher
    BY <2>1, <2>27 DEF JoinDispatcher
  <2>28. CASE TestUnexpected
    BY <2>1, <2>28 DEF TestUnexpected
  <2>29. CASE Leave
    BY <2>1, <2>29 DEF Leave
  <2>30. CASE UNCHANGED fsVars
    BY <2>1, <2>30 DEF fsVars
  <2> QED
    BY <1>3, <2>2, <2>3, <2>4, <2>5, <2>6, <2>7, <2>8, <2>9, <2>10, <2>11,
       <2>12,
       <2>13, <2>14, <2>15, <2>16, <2>17, <2>18, <2>19, <2>20, <2>21, <2>22,
       <2>23, <2>24, <2>25, <2>26, <2>27, <2>28, <2>29, <2>30 DEF FsNext,
       SignalHandler, CallbackReturns, Dispatcher, Main
<1> QED BY <1>1, <1>2, <1>3

\* Only files that are open when the event is set are held, and the count
\* that is found to be zero counts them too.
LEMMA HeldStep ==
    FsTypeOK /\ PhaseInv /\ CountInv /\ HeldInv /\ [FsNext]_fsVars => HeldInv'
  <1> SUFFICES ASSUME FsTypeOK, PhaseInv, CountInv, HeldInv, [FsNext]_fsVars
               PROVE  HeldInv'
    OBVIOUS
  <1> USE DEF FsTypeOK, PhaseInv, HeldInv, mainVars, clientVars, eventVars
  <1>1. CASE RequestStop
    BY <1>1 DEF RequestStop, SetStopEvent
  <1>2. CASE ControlSignal
    BY <1>2 DEF ControlSignal
  <1>3. CASE SignalHandlerSetsEvent
    BY <1>3 DEF SignalHandlerSetsEvent, SetStopEvent
  <1>4. CASE SignalHandlerReturns
    BY <1>4 DEF SignalHandlerReturns
  <1>5. CASE \E c \in Clients : OpenBegins(c)
    BY <1>5 DEF OpenBegins, EnterCallback
  <1>6. CASE \E c \in Clients : ReadBegins(c)
    BY <1>6 DEF ReadBegins, EnterCallback
  <1>7. CASE \E c \in Clients : CleanupBegins(c)
    BY <1>7 DEF CleanupBegins, EnterCallback
  <1>8. CASE \E c \in Clients : QueryBegins(c)
    BY <1>8 DEF QueryBegins, EnterCallback
  <1>9. CASE \E c \in Clients : OpenReturns(c)
    BY <1>9 DEF OpenReturns
  <1>10. CASE \E c \in Clients : OpenRefused(c)
    BY <1>10 DEF OpenRefused
  <1>11. CASE \E c \in Clients : ReadReturns(c)
    BY <1>11 DEF ReadReturns
  <1>12. CASE \E c \in Clients : QueryReturns(c)
    BY <1>12 DEF QueryReturns
  <1>13. CASE \E c \in Clients : EndFileOpen(c)
    BY <1>13 DEF EndFileOpen
  <1>14. CASE \E c \in Clients : EndFileOpenNotifies(c)
    BY <1>14 DEF EndFileOpenNotifies, Notify
  <1>15. CASE DispatcherFails
    BY <1>15 DEF DispatcherFails
  <1>16. CASE DispatcherStopsNormally
    BY <1>16 DEF DispatcherStopsNormally
  <1>17. CASE DispatcherStopsAbnormally
    BY <1>17 DEF DispatcherStopsAbnormally
  <1>18. CASE StoppedStores
    BY <1>18 DEF StoppedStores
  <1>19. CASE StoppedNotifies
    BY <1>19 DEF StoppedNotifies, Notify
  <1>20. CASE StoppedSetsFlag
    BY <1>20 DEF StoppedSetsFlag
  <1>21. CASE StoppedSetsEvent
    BY <1>21 DEF StoppedSetsEvent, SetStopEvent
  <1>22. CASE Mount
    BY <1>22 DEF Mount
  <1>23. CASE MountThrows
    BY <1>23 DEF MountThrows
  <1>24. CASE WaitStop
    BY <1>24 DEF WaitStop
  <1>25. CASE LoadCount
    <2>1. CASE /\ open_file_count_ = 0
               /\ dispatcher \in {"running", "stopping", "stopped"}
      <3>1. OpenFiles = {}
        BY <2>1, OpenFilesFinite, FS_EmptySet DEF CountInv
      <3>2. held = {}
        BY <3>1 DEF OpenFiles, Open
      <3> QED
        BY <1>25, <3>2 DEF LoadCount
    <2>2. CASE ~(/\ open_file_count_ = 0
                 /\ dispatcher \in {"running", "stopping", "stopped"})
      BY <1>25, <2>2 DEF LoadCount
    <2> QED
      BY <2>1, <2>2
  <1>26. CASE WaitCount
    BY <1>26 DEF WaitCount
  <1>27. CASE StopDispatcher
    BY <1>27 DEF StopDispatcher
  <1>28. CASE JoinDispatcher
    BY <1>28 DEF JoinDispatcher
  <1>29. CASE TestUnexpected
    BY <1>29 DEF TestUnexpected
  <1>30. CASE Leave
    BY <1>30 DEF Leave
  <1>31. CASE UNCHANGED fsVars
    BY <1>31 DEF fsVars
  <1> QED
    BY <1>1, <1>2, <1>3, <1>4, <1>5, <1>6, <1>7, <1>8, <1>9, <1>10, <1>11,
       <1>12, <1>13, <1>14, <1>15, <1>16, <1>17, <1>18, <1>19, <1>20, <1>21,
       <1>22, <1>23, <1>24, <1>25, <1>26, <1>27, <1>28, <1>29, <1>30, <1>31
       DEF FsNext, SignalHandler, CallbackReturns, Dispatcher, Main

\* Whoever brings the count to zero notifies afterwards.
LEMMA WakeupStep ==
    FsTypeOK /\ PhaseInv /\ CallbackInv /\ NoWakeupLost /\ [FsNext]_fsVars
        => NoWakeupLost'
  <1> SUFFICES ASSUME FsTypeOK, PhaseInv, CallbackInv, NoWakeupLost,
                      [FsNext]_fsVars
               PROVE  NoWakeupLost'
    OBVIOUS
  <1> USE DEF FsTypeOK, PhaseInv, CallbackInv, NoCallback, Callbacks,
          NoWakeupLost, mainVars, clientVars, eventVars
  <1>1. CASE RequestStop
    BY <1>1 DEF RequestStop, SetStopEvent
  <1>2. CASE ControlSignal
    BY <1>2 DEF ControlSignal
  <1>3. CASE SignalHandlerSetsEvent
    BY <1>3 DEF SignalHandlerSetsEvent, SetStopEvent
  <1>4. CASE SignalHandlerReturns
    BY <1>4 DEF SignalHandlerReturns
  <1>5. CASE \E c \in Clients : OpenBegins(c)
    BY <1>5 DEF OpenBegins, EnterCallback
  <1>6. CASE \E c \in Clients : ReadBegins(c)
    BY <1>6 DEF ReadBegins, EnterCallback
  <1>7. CASE \E c \in Clients : CleanupBegins(c)
    BY <1>7 DEF CleanupBegins, EnterCallback
  <1>8. CASE \E c \in Clients : QueryBegins(c)
    BY <1>8 DEF QueryBegins, EnterCallback
  <1>9. CASE \E c \in Clients : OpenReturns(c)
    BY <1>9 DEF OpenReturns
  <1>10. CASE \E c \in Clients : OpenRefused(c)
    BY <1>10 DEF OpenRefused
  <1>11. CASE \E c \in Clients : ReadReturns(c)
    BY <1>11 DEF ReadReturns
  <1>12. CASE \E c \in Clients : QueryReturns(c)
    BY <1>12 DEF QueryReturns
  <1>13. CASE \E c \in Clients : EndFileOpen(c)
    BY <1>13 DEF EndFileOpen
  <1>14. CASE \E c \in Clients : EndFileOpenNotifies(c)
    BY <1>14 DEF EndFileOpenNotifies, Notify
  <1>15. CASE DispatcherFails
    BY <1>15 DEF DispatcherFails
  <1>16. CASE DispatcherStopsNormally
    BY <1>16 DEF DispatcherStopsNormally
  <1>17. CASE DispatcherStopsAbnormally
    BY <1>17 DEF DispatcherStopsAbnormally
  <1>18. CASE StoppedStores
    BY <1>18 DEF StoppedStores
  <1>19. CASE StoppedNotifies
    BY <1>19 DEF StoppedNotifies, Notify
  <1>20. CASE StoppedSetsFlag
    BY <1>20 DEF StoppedSetsFlag
  <1>21. CASE StoppedSetsEvent
    BY <1>21 DEF StoppedSetsEvent, SetStopEvent
  <1>22. CASE Mount
    BY <1>22 DEF Mount
  <1>23. CASE MountThrows
    BY <1>23 DEF MountThrows
  <1>24. CASE WaitStop
    BY <1>24 DEF WaitStop
  <1>25. CASE LoadCount
    BY <1>25 DEF LoadCount
  <1>26. CASE WaitCount
    BY <1>26 DEF WaitCount
  <1>27. CASE StopDispatcher
    BY <1>27 DEF StopDispatcher
  <1>28. CASE JoinDispatcher
    BY <1>28 DEF JoinDispatcher
  <1>29. CASE TestUnexpected
    BY <1>29 DEF TestUnexpected
  <1>30. CASE Leave
    BY <1>30 DEF Leave
  <1>31. CASE UNCHANGED fsVars
    BY <1>31 DEF fsVars
  <1> QED
    BY <1>1, <1>2, <1>3, <1>4, <1>5, <1>6, <1>7, <1>8, <1>9, <1>10, <1>11,
       <1>12, <1>13, <1>14, <1>15, <1>16, <1>17, <1>18, <1>19, <1>20, <1>21,
       <1>22, <1>23, <1>24, <1>25, <1>26, <1>27, <1>28, <1>29, <1>30, <1>31
       DEF FsNext, SignalHandler, CallbackReturns, Dispatcher, Main

\* IInv is an invariant of the process.
LEMMA FsIInvInvariant == FsSpec => []FsIInv
<1>1. FsIInv /\ [FsNext]_fsVars => FsIInv'
  BY FsTypeStep, PhaseStep, CallbackStep, OutcomeStep, CountStep, HeldStep,
     WakeupStep DEF FsIInv
<1> QED BY FsInitIInv, <1>1, PTL DEF FsSpec

-----------------------------------------------------------------------------
(* The properties, for any number of handles and of openings.              *)

\* Every variable keeps to its values.  Of the count this says that EndFileOpen
\* never takes one from zero.
THEOREM FsTypeCorrect == FsSpec => []FsTypeOK
<1>1. FsIInv => FsTypeOK
  BY DEF FsIInv
<1> QED BY <1>1, FsIInvInvariant, PTL

\* No callback runs, and WinFsp starts none, in a file system whose members are
\* destroyed, on whichever way RunWithDevices is left.
THEOREM DestructionIsSafe == FsSpec => []NoCallbackAfterDestruction
<1>1. FsIInv => NoCallbackAfterDestruction
  BY DEF FsIInv, FsTypeOK, PhaseInv, CallbackInv, NoCallbackAfterDestruction
<1> QED BY <1>1, FsIInvInvariant, PTL

\* The dispatcher is told to stop only when every file that was open when the
\* stop was requested has been closed since.
THEOREM HeldFilesStayServed == FsSpec => []HeldFilesAreServed
<1>1. FsIInv => HeldFilesAreServed
  BY DEF FsIInv, FsTypeOK, PhaseInv, HeldInv, HeldFilesAreServed
<1> QED BY <1>1, FsIInvInvariant, PTL

\* A dispatcher that failed makes RunWithDevices throw, whenever it failed.
THEOREM FailuresAreReported == FsSpec => []FailureIsReported
<1>1. FsIInv => FailureIsReported
  BY DEF FsIInv, OutcomeInv
<1> QED BY <1>1, FsIInvInvariant, PTL

\* ~DeviceFs is never left blocked on a count of zero with nobody to wake it,
\* although only the last close notifies and files may be opened again.
THEOREM WakeupsAreNotLost == FsSpec => []NoWakeupLost
<1>1. FsIInv => NoWakeupLost
  BY DEF FsIInv
<1> QED BY <1>1, FsIInvInvariant, PTL


=============================================================================
