-------------------------- MODULE DeviceFsShutdown --------------------------
(***************************************************************************)
(* The end of a DeviceFs process: RunWithDevices and class DeviceFs of     *)
(* filesystem.ixx.  The main thread mounts, waits for the stop event, waits*)
(* for open_file_count_ to reach zero, and destroys the file system.       *)
(* Meanwhile WinFsp's dispatcher threads run the callbacks of its clients, *)
(* and WinFsp may stop the dispatcher on an error of its own; the console  *)
(* control handler runs on a thread of its own too.                        *)
(*                                                                         *)
(* WinFsp is external.  What the code relies on is modelled: callbacks run *)
(* only between FspFileSystemStartDispatcher and the end of the dispatcher,*)
(* DispatcherStopped is called when no other callback runs, and            *)
(* FspFileSystemStopDispatcher returns after it.                           *)
(***************************************************************************)
EXTENDS Naturals, FiniteSets

CONSTANTS
    Clients,   \* the handles that programs may hold on files
    MaxOpens   \* bound on how often each of them is opened

ASSUME ClientsAssumption == IsFiniteSet(Clients) /\ MaxOpens \in Nat

VARIABLES
    main,              \* where the main thread is
    open_files,        \* local of ~DeviceFs
    exit,              \* what RunWithDevices gives back; "none" before
    members,           \* files_ and security_: "alive" or "destroyed"
    open_file_count_,
    client,            \* each handle and the callback it is in, if any
    opens,             \* how often it was opened
    dispatcher,        \* WinFsp's dispatcher, and DispatcherStopped in it
    g_stop_event, g_stopped_event,       \* "reset" or "set"
    g_dispatcher_stopped_unexpectedly,   \* "no" or "yes"
    signal_handler,    \* the console control handler
    held               \* history: open since before g_stop_event was set

mainVars == <<main, open_files, exit, members>>
clientVars == <<open_file_count_, client, opens>>
eventVars == <<g_stop_event, g_stopped_event,
               g_dispatcher_stopped_unexpectedly>>
fsVars == <<mainVars, clientVars, dispatcher, eventVars, signal_handler, held>>

\* A callback of this handle is running.
Callbacks == {"opening", "reading", "closing", "notifying", "querying"}
\* The handle counts as an open file.
Open == {"open", "reading", "closing"}

FsTypeOK ==
    /\ main \in {"mount", "serve", "load", "wait", "blocked", "stop", "join",
                 "test", "leave", "exited"}
    /\ open_files \in Nat
    /\ exit \in {"none", "success", "threw"}
    /\ members \in {"alive", "destroyed"}
    /\ open_file_count_ \in Nat
    /\ client \in [Clients -> {"closed", "open"} \cup Callbacks]
    /\ opens \in [Clients -> 0..MaxOpens]
    /\ dispatcher \in {"none", "running", "stopping", "stopped", "failing",
                       "store", "notify", "flag", "event", "failed"}
    /\ g_stop_event \in {"reset", "set"}
    /\ g_stopped_event \in {"reset", "set"}
    /\ g_dispatcher_stopped_unexpectedly \in {"no", "yes"}
    /\ signal_handler \in {"idle", "called", "waiting", "returned"}
    /\ held \subseteq Clients

FsInit ==
    /\ main = "mount"
    /\ open_files = 0
    /\ exit = "none"
    /\ members = "alive"
    /\ open_file_count_ = 0
    /\ client = [c \in Clients |-> "closed"]
    /\ opens = [c \in Clients |-> 0]
    /\ dispatcher = "none"
    /\ g_stop_event = "reset"
    /\ g_stopped_event = "reset"
    /\ g_dispatcher_stopped_unexpectedly = "no"
    /\ signal_handler = "idle"
    /\ held = {}

-----------------------------------------------------------------------------
(* The stop event and the console control handler.                         *)

\* SetEvent(g_stop_event), by whoever does it.
SetStopEvent ==
    /\ g_stop_event' = "set"
    /\ held' = IF g_stop_event = "set" THEN held
               ELSE {c \in Clients : client[c] \in {"open", "reading"}}

\* The owner of the process signals the named event (~DeviceFsChild).
RequestStop ==
    /\ g_stop_event = "reset"
    /\ SetStopEvent
    /\ UNCHANGED <<mainVars, clientVars, dispatcher, g_stopped_event,
                   g_dispatcher_stopped_unexpectedly, signal_handler>>

\* Windows calls signal_handler on a thread of its own.
ControlSignal ==
    /\ signal_handler = "idle" /\ main # "exited"
    /\ signal_handler' = "called"
    /\ UNCHANGED <<mainVars, clientVars, dispatcher, eventVars, held>>

SignalHandlerSetsEvent ==
    /\ signal_handler = "called"
    /\ signal_handler' = "waiting"
    /\ SetStopEvent
    /\ UNCHANGED <<mainVars, clientVars, dispatcher, g_stopped_event,
                   g_dispatcher_stopped_unexpectedly>>

SignalHandlerReturns ==
    /\ signal_handler = "waiting"
    /\ g_stopped_event = "set"
    /\ signal_handler' = "returned"
    /\ UNCHANGED <<mainVars, clientVars, dispatcher, eventVars, held>>

SignalHandler == SignalHandlerSetsEvent \/ SignalHandlerReturns

-----------------------------------------------------------------------------
(* The callbacks.  Each begins when WinFsp calls it, and uses the members. *)

EnterCallback(c, from, to) ==
    /\ dispatcher = "running"
    /\ client[c] = from
    /\ client' = [client EXCEPT ![c] = to]

OpenBegins(c) ==
    /\ opens[c] < MaxOpens
    /\ EnterCallback(c, "closed", "opening")
    /\ opens' = [opens EXCEPT ![c] = @ + 1]
    /\ UNCHANGED <<mainVars, open_file_count_, dispatcher, eventVars,
                   signal_handler, held>>

\* The file exists and no write access was asked for.
OpenReturns(c) ==
    /\ client[c] = "opening"
    /\ client' = [client EXCEPT ![c] = "open"]
    /\ open_file_count_' = open_file_count_ + 1
    /\ UNCHANGED <<mainVars, opens, dispatcher, eventVars, signal_handler,
                   held>>

\* STATUS_OBJECT_NAME_NOT_FOUND or STATUS_MEDIA_WRITE_PROTECTED.
OpenRefused(c) ==
    /\ client[c] = "opening"
    /\ client' = [client EXCEPT ![c] = "closed"]
    /\ UNCHANGED <<mainVars, open_file_count_, opens, dispatcher, eventVars,
                   signal_handler, held>>

ReadBegins(c) ==
    /\ EnterCallback(c, "open", "reading")
    /\ UNCHANGED <<mainVars, open_file_count_, opens, dispatcher, eventVars,
                   signal_handler, held>>

ReadReturns(c) ==
    /\ client[c] = "reading"
    /\ client' = [client EXCEPT ![c] = "open"]
    /\ UNCHANGED <<mainVars, open_file_count_, opens, dispatcher, eventVars,
                   signal_handler, held>>

\* The last handle of a file object is closed.
CleanupBegins(c) ==
    /\ EnterCallback(c, "open", "closing")
    /\ held' = held \ {c}
    /\ UNCHANGED <<mainVars, open_file_count_, opens, dispatcher, eventVars,
                   signal_handler>>

\* Mutant: the last close is taken for one before it, and nobody is woken.
EndFileOpenSilently(c) ==
    /\ client[c] = "closing"
    /\ open_file_count_' = open_file_count_ - 1
    /\ client' = [client EXCEPT ![c] = "closed"]
    /\ UNCHANGED <<mainVars, opens, dispatcher, eventVars, signal_handler,
                   held>>

\* The fetch_sub of EndFileOpen.
EndFileOpen(c) ==
    /\ client[c] = "closing"
    /\ open_file_count_' = open_file_count_ - 1
    /\ client' = [client EXCEPT ![c] =
                     IF open_file_count_ = 1 THEN "notifying" ELSE "closed"]
    /\ UNCHANGED <<mainVars, opens, dispatcher, eventVars, signal_handler,
                   held>>

\* notify_all wakes a main thread that is blocked in wait.
Notify == main' = IF main = "blocked" THEN "wait" ELSE main

\* The notify_all of EndFileOpen.
EndFileOpenNotifies(c) ==
    /\ client[c] = "notifying"
    /\ client' = [client EXCEPT ![c] = "closed"]
    /\ Notify
    /\ UNCHANGED <<open_files, exit, members, open_file_count_, opens,
                   dispatcher, eventVars, signal_handler, held>>

\* The callbacks that use the members without a counted open: the volume, its
\* security and its only directory, whose handles are not counted.
QueryBegins(c) ==
    /\ EnterCallback(c, "closed", "querying")
    /\ UNCHANGED <<mainVars, open_file_count_, opens, dispatcher, eventVars,
                   signal_handler, held>>

QueryReturns(c) ==
    /\ client[c] = "querying"
    /\ client' = [client EXCEPT ![c] = "closed"]
    /\ UNCHANGED <<mainVars, open_file_count_, opens, dispatcher, eventVars,
                   signal_handler, held>>

CallbackReturns(c) ==
    \/ OpenReturns(c) \/ OpenRefused(c)
    \/ ReadReturns(c) \/ QueryReturns(c)
    \/ EndFileOpen(c) \/ EndFileOpenNotifies(c)

NoCallback == \A c \in Clients : client[c] \notin Callbacks

-----------------------------------------------------------------------------
(* The dispatcher and DispatcherStopped.                                   *)

\* WinFsp cannot go on.
DispatcherFails ==
    /\ dispatcher = "running"
    /\ dispatcher' = "failing"
    /\ UNCHANGED <<mainVars, clientVars, eventVars, signal_handler, held>>

\* DispatcherStopped(TRUE) does nothing.
DispatcherStopsNormally ==
    /\ dispatcher = "stopping" /\ NoCallback
    /\ dispatcher' = "stopped"
    /\ UNCHANGED <<mainVars, clientVars, eventVars, signal_handler, held>>

\* DispatcherStopped(FALSE) is called ...
DispatcherStopsAbnormally ==
    /\ dispatcher = "failing" /\ NoCallback
    /\ dispatcher' = "store"
    /\ UNCHANGED <<mainVars, clientVars, eventVars, signal_handler, held>>

\* ... nobody will ever close the open files ...
StoppedStores ==
    /\ dispatcher = "store"
    /\ dispatcher' = "notify"
    /\ open_file_count_' = 0
    /\ UNCHANGED <<mainVars, client, opens, eventVars, signal_handler, held>>

StoppedNotifies ==
    /\ dispatcher = "notify"
    /\ dispatcher' = "flag"
    /\ Notify
    /\ UNCHANGED <<open_files, exit, members, clientVars, eventVars,
                   signal_handler, held>>

\* Mutant: the flag is set only if the main thread is still serving.
StoppedSetsFlagWhenServing ==
    /\ dispatcher = "flag"
    /\ dispatcher' = "event"
    /\ g_dispatcher_stopped_unexpectedly' =
          IF main = "serve" THEN "yes" ELSE "no"
    /\ UNCHANGED <<mainVars, clientVars, g_stop_event, g_stopped_event,
                   signal_handler, held>>

StoppedSetsFlag ==
    /\ dispatcher = "flag"
    /\ dispatcher' = "event"
    /\ g_dispatcher_stopped_unexpectedly' = "yes"
    /\ UNCHANGED <<mainVars, clientVars, g_stop_event, g_stopped_event,
                   signal_handler, held>>

\* ... and the main thread is told to leave.
StoppedSetsEvent ==
    /\ dispatcher = "event"
    /\ dispatcher' = "failed"
    /\ SetStopEvent
    /\ UNCHANGED <<mainVars, clientVars, g_stopped_event,
                   g_dispatcher_stopped_unexpectedly, signal_handler>>

Dispatcher ==
    \/ DispatcherStopsNormally
    \/ DispatcherStopsAbnormally
    \/ StoppedStores \/ StoppedNotifies \/ StoppedSetsFlag \/ StoppedSetsEvent

-----------------------------------------------------------------------------
(* The main thread.                                                        *)

\* The constructor of DeviceFs mounts and starts the dispatcher ...
Mount ==
    /\ main = "mount"
    /\ main' = "serve"
    /\ dispatcher' = "running"
    /\ UNCHANGED <<open_files, exit, members, clientVars, eventVars,
                   signal_handler, held>>

\* ... or throws, and RunWithDevices is left.
MountThrows ==
    /\ main = "mount"
    /\ main' = "leave"
    /\ exit' = "threw"
    /\ members' = "destroyed"
    /\ UNCHANGED <<open_files, clientVars, dispatcher, eventVars,
                   signal_handler, held>>

\* handle_wait(g_stop_event) returns and ~DeviceFs begins.
WaitStop ==
    /\ main = "serve"
    /\ g_stop_event = "set"
    /\ main' = "load"
    /\ UNCHANGED <<open_files, exit, members, clientVars, dispatcher,
                   eventVars, signal_handler, held>>

\* Mutant: one open file is taken for none.
LoadCountOffByOne ==
    /\ main = "load"
    /\ open_files' = open_file_count_
    /\ main' = IF open_file_count_ <= 1 THEN "stop" ELSE "wait"
    /\ UNCHANGED <<exit, members, clientVars, dispatcher, eventVars,
                   signal_handler, held>>

LoadCount ==
    /\ main = "load"
    /\ open_files' = open_file_count_
    /\ main' = IF open_file_count_ = 0 THEN "stop" ELSE "wait"
    /\ UNCHANGED <<exit, members, clientVars, dispatcher, eventVars,
                   signal_handler, held>>

\* open_file_count_.wait(open_files) compares, and blocks or returns.
WaitCount ==
    /\ main = "wait"
    /\ main' = IF open_file_count_ = open_files THEN "blocked" ELSE "load"
    /\ UNCHANGED <<open_files, exit, members, clientVars, dispatcher,
                   eventVars, signal_handler, held>>

\* fs_, declared last, is destroyed first: FspFileSystemStopDispatcher.
StopDispatcher ==
    /\ main = "stop"
    /\ main' = "join"
    /\ dispatcher' = IF dispatcher = "running" THEN "stopping" ELSE dispatcher
    /\ UNCHANGED <<open_files, exit, members, clientVars, eventVars,
                   signal_handler, held>>

\* Mutant: fs_ is declared first, so the other members go before it.
DestroyBeforeJoin ==
    /\ main = "join"
    /\ main' = "test"
    /\ members' = "destroyed"
    /\ UNCHANGED <<open_files, exit, clientVars, dispatcher, eventVars,
                   signal_handler, held>>

\* The dispatcher has ended: FspFileSystemDelete, and the other members go.
JoinDispatcher ==
    /\ main = "join"
    /\ dispatcher \in {"stopped", "failed"}
    /\ main' = "test"
    /\ members' = "destroyed"
    /\ UNCHANGED <<open_files, exit, clientVars, dispatcher, eventVars,
                   signal_handler, held>>

TestUnexpected ==
    /\ main = "test"
    /\ main' = "leave"
    /\ exit' = IF g_dispatcher_stopped_unexpectedly = "yes" THEN "threw"
                                                            ELSE "success"
    /\ UNCHANGED <<open_files, members, clientVars, dispatcher, eventVars,
                   signal_handler, held>>

\* signal_completion_event_on_exit.
Leave ==
    /\ main = "leave"
    /\ main' = "exited"
    /\ g_stopped_event' = "set"
    /\ UNCHANGED <<open_files, exit, members, clientVars, dispatcher,
                   g_stop_event, g_dispatcher_stopped_unexpectedly,
                   signal_handler, held>>

Main ==
    \/ Mount \/ MountThrows
    \/ WaitStop
    \/ LoadCount \/ WaitCount
    \/ StopDispatcher \/ JoinDispatcher
    \/ TestUnexpected
    \/ Leave

FsNext ==
    \/ RequestStop
    \/ ControlSignal
    \/ SignalHandler
    \/ \E c \in Clients :
          \/ OpenBegins(c) \/ ReadBegins(c) \/ CleanupBegins(c)
          \/ QueryBegins(c)
          \/ CallbackReturns(c)
    \/ DispatcherFails
    \/ Dispatcher
    \/ Main
    \/ main = "exited" /\ UNCHANGED fsVars

FsSpec == FsInit /\ [][FsNext]_fsVars

\* Windows runs the threads and WinFsp its dispatcher; a program that has a
\* file open closes it some day.  Without the last of these the process is
\* meant to stay: it goes on serving a disk that is still attached.
FsFairSpec ==
    /\ FsSpec
    /\ WF_fsVars(Main)
    /\ WF_fsVars(SignalHandler)
    /\ WF_fsVars(Dispatcher)
    /\ \A c \in Clients :
          SF_fsVars(CleanupBegins(c)) /\ WF_fsVars(CallbackReturns(c))

-----------------------------------------------------------------------------
(* Properties.                                                             *)

\* No callback of WinFsp, DispatcherStopped included, runs once files_ and
\* security_ are destroyed: fs_ is declared last and joins the dispatcher.
NoCallbackAfterDestruction ==
    members = "destroyed" =>
        NoCallback /\ dispatcher \in {"none", "stopped", "failed"}

\* A file that was open when the stop was requested, and has stayed open, is
\* still served: the dispatcher is not told to stop before it is closed.
HeldFilesAreServed ==
    dispatcher \in {"stopping", "stopped"} => held = {}

\* The process succeeds only if WinFsp stopped because it was told to; a
\* failure that races with a requested stop is not lost.
FailureIsReported ==
    exit = "success" => dispatcher = "stopped"

\* A requested stop, a console signal or a failed dispatcher ends the process:
\* the wait for open files misses no notification, and gives up on files whose
\* closing can no longer be seen.  The console control handler, which waits for
\* the main thread, is released on every path out of it.
StopEndsProcess ==
    /\ (g_stop_event = "set" \/ dispatcher = "failing") ~> main = "exited"
    /\ signal_handler = "called" ~> signal_handler = "returned"

\* devicefs_process.cpp says that after receipt of the stop signal "DeviceFs
\* waits for open files to close before exiting".
ExitsWithFilesClosed ==
    exit = "success" => \A c \in Clients : client[c] \notin Open

=============================================================================
