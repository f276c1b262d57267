------------------------ MODULE ForegroundOperation -------------------------
(***************************************************************************)
(* Cancellation of operations in the foreground: foreground_operation.ixx  *)
(* over coherent_vector.ixx and the thread-pool work of                    *)
(* lightweight_future.ixx.  Each operation has a context of two events,    *)
(* registered in foreground_contexts while the operation runs on a worker  *)
(* thread; RunForegroundOperation watches the console for Ctrl+C on the    *)
(* calling thread; and Windows calls ForegroundControlHandler on threads of*)
(* its own.                                                                *)
(***************************************************************************)
CONSTANTS
    Ops,        \* operations, each with its context
    Handlers,   \* calls of ForegroundControlHandler
    DependsOn,  \* the operations an operation's cleanup waits for
    Nobody      \* a model value: writer_mutex_ is free

ASSUME OpsAssumption ==
    /\ Nobody \notin Ops
    /\ DependsOn \in [Ops -> SUBSET Ops]

VARIABLES
    op,               \* each operation's worker
    current_,         \* contexts in foreground_contexts, as last stored
    writer_mutex_,    \* the worker that holds it, or Nobody
    next,             \* Update's copy of the vector
    registered,       \* "no" or "yes": SetConsoleCtrlHandler was called
    cancellation_event, completed_event,  \* sets of contexts: the signaled ones
    handler,          \* each call of the handler
    contexts,         \* its snapshot
    signaled,         \* the contexts of it that it has signaled
    monitor           \* RunForegroundOperation of each operation

workerVars == <<op, current_, writer_mutex_, next, registered>>
handlerVars == <<handler, contexts, signaled>>
vars == <<workerVars, cancellation_event, completed_event, handlerVars,
          monitor>>

TypeOK ==
    /\ op \in [Ops -> {"idle", "register", "push", "pushing", "running",
                       "erase", "erasing", "complete", "done"}]
    /\ current_ \subseteq Ops
    /\ writer_mutex_ \in Ops \cup {Nobody}
    /\ next \subseteq Ops
    /\ registered \in {"no", "yes"}
    /\ cancellation_event \subseteq Ops
    /\ completed_event \subseteq Ops
    /\ handler \in [Handlers -> {"idle", "signal", "TRUE", "FALSE"}]
    /\ contexts \in [Handlers -> SUBSET Ops]
    /\ signaled \in [Handlers -> SUBSET Ops]
    /\ monitor \in [Ops -> {"idle", "watch", "unwind", "returned", "threw"}]

Init ==
    /\ op = [o \in Ops |-> "idle"]
    /\ current_ = {}
    /\ writer_mutex_ = Nobody
    /\ next = {}
    /\ registered = "no"
    /\ cancellation_event = {}
    /\ completed_event = {}
    /\ handler = [h \in Handlers |-> "idle"]
    /\ contexts = [h \in Handlers |-> {}]
    /\ signaled = [h \in Handlers |-> {}]
    /\ monitor = [o \in Ops |-> "idle"]

-----------------------------------------------------------------------------
(* The worker: the callback that MakeForegroundOperation returns.          *)

\* RunForegroundOperation starts the worker and watches; without a console to
\* watch, the calling thread is the worker.
Start(o) ==
    /\ op[o] = "idle"
    /\ op' = [op EXCEPT ![o] = "register"]
    /\ \E watch \in {"watch", "idle"} :
          monitor' = [monitor EXCEPT ![o] = watch]
    /\ UNCHANGED <<current_, writer_mutex_, next, registered,
                   cancellation_event, completed_event, handlerVars>>

\* The call_once.
RegisterHandler(o) ==
    /\ op[o] = "register"
    /\ op' = [op EXCEPT ![o] = "push"]
    /\ registered' = "yes"
    /\ UNCHANGED <<current_, writer_mutex_, next, cancellation_event,
                   completed_event, handlerVars, monitor>>

\* SetConsoleCtrlHandler fails; the next operation tries again.
RegisterHandlerThrows(o) ==
    /\ op[o] = "register"
    /\ registered = "no"
    /\ op' = [op EXCEPT ![o] = "complete"]
    /\ UNCHANGED <<current_, writer_mutex_, next, registered,
                   cancellation_event, completed_event, handlerVars, monitor>>

Updating == [push |-> "pushing", erase |-> "erasing"]

\* Mutant: the vector is copied before the lock is taken.
UpdateCopiesUnlocked(o) ==
    /\ op[o] \in DOMAIN Updating
    /\ writer_mutex_' = o
    /\ next' = current_
    /\ op' = [op EXCEPT ![o] = Updating[@]]
    /\ UNCHANGED <<current_, registered, cancellation_event, completed_event,
                   handlerVars, monitor>>

\* Update takes the lock and copies the vector ...
UpdateCopies(o) ==
    /\ op[o] \in DOMAIN Updating
    /\ writer_mutex_ = Nobody
    /\ writer_mutex_' = o
    /\ next' = current_
    /\ op' = [op EXCEPT ![o] = Updating[@]]
    /\ UNCHANGED <<current_, registered, cancellation_event, completed_event,
                   handlerVars, monitor>>

\* ... changes the copy, stores it and unlocks.
PushBack(o) ==
    /\ op[o] = "pushing"
    /\ current_' = next \cup {o}
    /\ writer_mutex_' = Nobody
    /\ op' = [op EXCEPT ![o] = "running"]
    /\ UNCHANGED <<next, registered, cancellation_event, completed_event,
                   handlerVars, monitor>>

Erase(o) ==
    /\ op[o] = "erasing"
    /\ current_' = next \ {o}
    /\ writer_mutex_' = Nobody
    /\ op' = [op EXCEPT ![o] = "complete"]
    /\ UNCHANGED <<next, registered, cancellation_event, completed_event,
                   handlerVars, monitor>>

\* The operation returns or throws, cancelled or not, but not before the
\* operations that its cleanup depends on.
OperationEnds(o) ==
    /\ op[o] = "running"
    /\ \A d \in DependsOn[o] : op[d] \in {"idle", "complete", "done"}
    /\ op' = [op EXCEPT ![o] = "erase"]
    /\ UNCHANGED <<current_, writer_mutex_, next, registered,
                   cancellation_event, completed_event, handlerVars, monitor>>

\* The guard completed, declared first, goes last.
Complete(o) ==
    /\ op[o] = "complete"
    /\ op' = [op EXCEPT ![o] = "done"]
    /\ completed_event' = completed_event \cup {o}
    /\ UNCHANGED <<current_, writer_mutex_, next, registered,
                   cancellation_event, handlerVars, monitor>>

Worker(o) ==
    \/ RegisterHandler(o) \/ RegisterHandlerThrows(o)
    \/ UpdateCopies(o) \/ PushBack(o) \/ Erase(o)
    \/ Complete(o)

-----------------------------------------------------------------------------
(* ForegroundControlHandler.                                               *)

HandlerReads(h) ==
    /\ registered = "yes" /\ handler[h] = "idle"
    /\ contexts' = [contexts EXCEPT ![h] = current_]
    /\ handler' = [handler EXCEPT ![h] =
                      IF current_ = {} THEN "FALSE" ELSE "signal"]
    /\ UNCHANGED <<workerVars, cancellation_event, completed_event, signaled,
                   monitor>>

\* Mutant: each context is waited for before the next one is signaled.
HandlerSignalsOneByOne(h, o) ==
    /\ handler[h] = "signal"
    /\ o \in contexts[h] \ signaled[h]
    /\ signaled[h] \subseteq completed_event
    /\ signaled' = [signaled EXCEPT ![h] = @ \cup {o}]
    /\ cancellation_event' = cancellation_event \cup {o}
    /\ UNCHANGED <<workerVars, completed_event, handler, contexts, monitor>>

HandlerSignals(h, o) ==
    /\ handler[h] = "signal"
    /\ o \in contexts[h] \ signaled[h]
    /\ signaled' = [signaled EXCEPT ![h] = @ \cup {o}]
    /\ cancellation_event' = cancellation_event \cup {o}
    /\ UNCHANGED <<workerVars, completed_event, handler, contexts, monitor>>

\* Mutant: the first completion is enough.
HandlerReturnsEarly(h) ==
    /\ handler[h] = "signal"
    /\ signaled[h] = contexts[h]
    /\ contexts[h] \cap completed_event # {}
    /\ handler' = [handler EXCEPT ![h] = "TRUE"]
    /\ UNCHANGED <<workerVars, cancellation_event, completed_event, contexts,
                   signaled, monitor>>

HandlerReturns(h) ==
    /\ handler[h] = "signal"
    /\ signaled[h] = contexts[h]
    /\ contexts[h] \subseteq completed_event
    /\ handler' = [handler EXCEPT ![h] = "TRUE"]
    /\ UNCHANGED <<workerVars, cancellation_event, completed_event, contexts,
                   signaled, monitor>>

Handler(h) ==
    \/ \E o \in Ops : HandlerSignals(h, o)
    \/ HandlerReturns(h)

-----------------------------------------------------------------------------
(* The thread in RunForegroundOperation.                                   *)

\* Ctrl+C was read.  Completion has priority over input.
MonitorCancels(o) ==
    /\ monitor[o] = "watch" /\ o \notin completed_event
    /\ cancellation_event' = cancellation_event \cup {o}
    /\ UNCHANGED <<workerVars, completed_event, handlerVars, monitor>>

\* The console cannot be read: cancel_on_monitor_failure.
MonitorFails(o) ==
    /\ monitor[o] = "watch" /\ o \notin completed_event
    /\ monitor' = [monitor EXCEPT ![o] = "unwind"]
    /\ cancellation_event' = cancellation_event \cup {o}
    /\ UNCHANGED <<workerVars, completed_event, handlerVars>>

\* The future is read.
MonitorReturns(o) ==
    /\ monitor[o] = "watch" /\ o \in completed_event
    /\ monitor' = [monitor EXCEPT ![o] = "returned"]
    /\ UNCHANGED <<workerVars, cancellation_event, completed_event,
                   handlerVars>>

\* Mutant: the future does not wait for its work.
MonitorThrowsEarly(o) ==
    /\ monitor[o] = "unwind"
    /\ monitor' = [monitor EXCEPT ![o] = "threw"]
    /\ UNCHANGED <<workerVars, cancellation_event, completed_event,
                   handlerVars>>

\* The future is destroyed, which waits for the worker: it is not one of
\* FuturePolicy::CancelOnDestruction.
MonitorThrows(o) ==
    /\ monitor[o] = "unwind" /\ op[o] = "done"
    /\ monitor' = [monitor EXCEPT ![o] = "threw"]
    /\ UNCHANGED <<workerVars, cancellation_event, completed_event,
                   handlerVars>>

Monitor(o) == MonitorReturns(o) \/ MonitorThrows(o)

Next ==
    \/ \E o \in Ops :
          \/ Start(o) \/ Worker(o) \/ OperationEnds(o)
          \/ MonitorCancels(o) \/ MonitorFails(o) \/ Monitor(o)
    \/ \E h \in Handlers : HandlerReads(h) \/ Handler(h)

Spec == Init /\ [][Next]_vars

\* Windows runs the threads, the mutex is handed to who waits for it, and an
\* operation comes to its end once it is cancelled.
FairSpec ==
    /\ Spec
    /\ \A o \in Ops :
          /\ WF_vars(Worker(o))
          /\ SF_vars(UpdateCopies(o))
          /\ WF_vars(OperationEnds(o) /\ o \in cancellation_event)
          /\ WF_vars(Monitor(o))
    /\ \A h \in Handlers : WF_vars(Handler(h))

-----------------------------------------------------------------------------
(* Properties.                                                             *)

\* No update of foreground_contexts is lost: whenever nobody is in Update the
\* vector holds the contexts of the running operations, and no others.
NoUpdateLost ==
    writer_mutex_ = Nobody =>
        current_ = {o \in Ops : op[o] \in {"running", "erase"}}

\* When the handler returns TRUE, which may end the process, each operation
\* that was running when it was called was cancelled and has cleaned up.
HandlerSeesCleanup ==
    \A h \in Handlers : handler[h] = "TRUE" =>
        \A o \in contexts[h] : op[o] = "done" /\ o \in cancellation_event

\* RunForegroundOperation is never left, not even by an exception, while its
\* worker still uses the operation that the caller passed by reference.
MonitorOutlivesWorker ==
    \A o \in Ops : monitor[o] \in {"returned", "threw"} => op[o] = "done"

\* The handler returns, also when the cleanup of an operation waits for
\* another one that was running too: all are signaled before any is waited
\* for.  (It may hang for an operation that was registered after its snapshot:
\* nobody cancels that one.)
HandlerEnds ==
    \A h \in Handlers :
        (/\ handler[h] = "signal"
         /\ \A o \in contexts[h] : DependsOn[o] \subseteq contexts[h])
            ~> handler[h] = "TRUE"

=============================================================================
