----------------------------- MODULE PbsControl -----------------------------
(***************************************************************************)
(* The control protocol between the Windows supervisor and a Fish program  *)
(* in WSL: RunPbsFish, StopPbsFish and SendPbsFishSignal of pbs.cpp on one *)
(* side, publish_children of start-pbs.fish on the other, and between them *)
(* two files in /tmp, pid_file and stop_file.                              *)
(*                                                                         *)
(* The module has no next-state relation: each Fish operation (BackupFish, *)
(* CatalogFish, ...) extends it with its own program and composes the      *)
(* actions below.  A signal request is a WSL process of its own, so its    *)
(* four steps interleave with the Fish program, with the children and with *)
(* a supervisor that has stopped waiting for it.                           *)
(***************************************************************************)
EXTENDS Naturals

CONSTANTS
    Children    \* the processes the Fish program may start and publish

VARIABLES
    cancellation_event, \* the supervisor's event: "reset" or "signaled"
    sup,                \* where RunPbsFish is
    result,             \* the exit code RunPbsFish returns; "none" before that
    standard_input,     \* of Fish: "open", "complete" (all records) or "closed"
    ctl,                \* ctl[s]: where the control program sending s is
    read_pids,          \* read_pids[s]: the PIDs that (cat $argv[1]) gave it
    pid_file,           \* the PIDs in pid_file; {} when it is empty or absent
    stop_file,          \* "absent" or "present"
    fish,               \* where the Fish program is
    status,             \* the exit status the Fish program is to report
    publish,            \* where publish_children is; "idle" outside a call
    argv,               \* the PIDs of the latest call of publish_children
    proc,               \* proc[c]: the life of child c
    signalled           \* signalled[c]: the signals child c has been sent

controlVars == <<ctl, read_pids>>
supervisorVars == <<sup, result, standard_input>>
publishVars == <<publish, argv>>
fileVars == <<pid_file, stop_file>>
childVars == <<proc, signalled>>
programVars == <<fish, status>>
pbsVars == <<cancellation_event, supervisorVars, controlVars, fileVars,
             programVars, publishVars, childVars>>

Signals == {"TERM", "KILL"}

\* No caller tells one failure code from another.
ExitCodes == {"zero", "nonzero"}

SupervisorStates ==
    {"start", "write", "poll", "stop", "sendTERM", "waitTERM",
     "sendKILL", "waitKILL", "finished", "threw"}

ControlStates == {"off", "touch", "test", "cat", "kill", "done"}

PublishStates == {"idle", "open", "write", "test", "kill"}

ProcessStates == {"unborn", "running", "ok", "failed"}

Exited(c) == proc[c] \in {"ok", "failed"}

Running(c) == proc[c] = "running"

PbsTypeOK ==
    /\ cancellation_event \in {"reset", "signaled"}
    /\ sup \in SupervisorStates
    /\ result \in ExitCodes \cup {"none"}
    /\ standard_input \in {"open", "complete", "closed"}
    /\ ctl \in [Signals -> ControlStates]
    /\ read_pids \in [Signals -> SUBSET Children]
    /\ pid_file \in SUBSET Children
    /\ stop_file \in {"absent", "present"}
    /\ status \in ExitCodes
    /\ publish \in PublishStates
    /\ argv \in SUBSET Children
    /\ proc \in [Children -> ProcessStates]
    /\ signalled \in [Children -> SUBSET Signals]

PbsInit ==
    /\ cancellation_event = "reset"
    /\ sup = "start"
    /\ result = "none"
    /\ standard_input = "open"
    /\ ctl = [s \in Signals |-> "off"]
    /\ read_pids = [s \in Signals |-> {}]
    /\ pid_file = {}
    /\ stop_file = "absent"
    /\ fish = "unborn"
    /\ status = "zero"
    /\ publish = "idle"
    /\ argv = {}
    /\ proc = [c \in Children |-> "unborn"]
    /\ signalled = [c \in Children |-> {}]

-----------------------------------------------------------------------------
(* The supervisor: StartPbsFish, the polling loop of RunPbsFish, and       *)
(* StopPbsFish.                                                            *)

\* A service stop, a console handler or a lost console owner sets the event.
RequestCancellation ==
    /\ cancellation_event = "reset"
    /\ cancellation_event' = "signaled"
    /\ UNCHANGED <<supervisorVars, controlVars, fileVars, programVars,
                   publishVars, childVars>>

\* StartWslFishProcess: WSL starts Fish, which waits for its program.
StartWslFishProcess ==
    /\ sup = "start"
    /\ sup' = "write"
    /\ fish' = "input"
    /\ UNCHANGED <<cancellation_event, result, standard_input, controlVars,
                   fileVars, status, publishVars, childVars>>

\* The configuration cannot be read or WSL does not start.
StartWslFishProcessThrows ==
    /\ sup = "start"
    /\ sup' = "threw"
    /\ UNCHANGED <<cancellation_event, result, standard_input, controlVars,
                   fileVars, programVars, publishVars, childVars>>

\* StartWslFish writes the program and the input records, then closes the pipe.
\* The blocking write is assumed to return; only liveness depends on it.
WriteInput ==
    /\ sup = "write"
    /\ sup' = "poll"
    /\ standard_input' = "complete"
    /\ UNCHANGED <<cancellation_event, result, controlVars, fileVars,
                   programVars, publishVars, childVars>>

\* The manifest or a write fails.  Unwinding closes the pipe and leaves Fish
\* with incomplete input.
WriteInputThrows ==
    /\ sup = "write"
    /\ sup' = "threw"
    /\ standard_input' = "closed"
    /\ UNCHANGED <<cancellation_event, result, controlVars, fileVars,
                   programVars, publishVars, childVars>>

\* FinishWsl, from any of the waits that notice that Fish has exited.
FinishWsl ==
    /\ sup \in {"poll", "stop", "waitTERM", "waitKILL"}
    /\ fish = "exited"
    /\ sup' = "finished"
    /\ result' = status
    /\ UNCHANGED <<cancellation_event, standard_input, controlVars, fileVars,
                   programVars, publishVars, childVars>>

\* A poll interval ends and the event is found signaled.  Fish was running
\* when the interval ended and may have exited since.
PollCancelled ==
    /\ sup = "poll"
    /\ cancellation_event = "signaled"
    /\ sup' = "stop"
    /\ UNCHANGED <<cancellation_event, result, standard_input, controlVars,
                   fileVars, programVars, publishVars, childVars>>

\* SendPbsFishSignal starts the control program for s.
StartSignal(s) ==
    /\ \/ s = "TERM" /\ sup = "stop" /\ fish # "exited"
       \/ s = "KILL" /\ sup = "waitTERM" /\ fish # "exited"
    /\ sup' = IF s = "TERM" THEN "sendTERM" ELSE "sendKILL"
    /\ ctl' = [ctl EXCEPT ![s] = "touch"]
    /\ UNCHANGED <<cancellation_event, result, standard_input, read_pids,
                   fileVars, programVars, publishVars, childVars>>

\* The request cannot be started; TrySendPbsFishSignal swallows the exception
\* and StopPbsFish waits as if the signal had been sent.
StartSignalThrows(s) ==
    /\ \/ s = "TERM" /\ sup = "stop" /\ fish # "exited"
       \/ s = "KILL" /\ sup = "waitTERM" /\ fish # "exited"
    /\ sup' = IF s = "TERM" THEN "waitTERM" ELSE "waitKILL"
    /\ UNCHANGED <<cancellation_event, result, standard_input, controlVars,
                   fileVars, programVars, publishVars, childVars>>

\* The control program has exited, or kControlTimeout has passed and it is
\* left to run on by itself; its exit code is logged and not used.
SignalReturns(s) ==
    /\ sup = IF s = "TERM" THEN "sendTERM" ELSE "sendKILL"
    /\ sup' = IF s = "TERM" THEN "waitTERM" ELSE "waitKILL"
    /\ UNCHANGED <<cancellation_event, result, standard_input, controlVars,
                   fileVars, programVars, publishVars, childVars>>

\* Mutant: StopPbsFish takes the end of kill_grace for the end of Fish.
KillGraceIgnored ==
    /\ sup = "waitKILL"
    /\ fish # "exited"
    /\ sup' = "finished"
    /\ result' = "nonzero"
    /\ UNCHANGED <<cancellation_event, standard_input, controlVars, fileVars,
                   programVars, publishVars, childVars>>

\* Mutant: the last wait of StopPbsFish has no timeout.
KillGraceNeverExpires == FALSE /\ UNCHANGED pbsVars

\* kill_grace passes with Fish still running: StopPbsFish gives it up.
KillGraceExpires ==
    /\ sup = "waitKILL"
    /\ fish # "exited"
    /\ sup' = "threw"
    /\ UNCHANGED <<cancellation_event, result, standard_input, controlVars,
                   fileVars, programVars, publishVars, childVars>>

Supervisor ==
    \/ StartWslFishProcess \/ StartWslFishProcessThrows
    \/ WriteInput \/ WriteInputThrows
    \/ FinishWsl \/ PollCancelled \/ KillGraceExpires
    \/ \E s \in Signals :
          StartSignal(s) \/ StartSignalThrows(s) \/ SignalReturns(s)

-----------------------------------------------------------------------------
(* The control program:                                                    *)
(*   touch stop_file; if test -s pid_file; kill -s SIG (cat pid_file); end *)

\* The running members of S receive s.
Signal(S, s) ==
    signalled' = [c \in Children |->
                     IF c \in S /\ Running(c)
                     THEN signalled[c] \cup {s} ELSE signalled[c]]

\* Mutant: the control program does not create the stop file.
ControlWithoutTouch(s) ==
    /\ ctl[s] = "touch"
    /\ ctl' = [ctl EXCEPT ![s] = "test"]
    /\ UNCHANGED <<cancellation_event, supervisorVars, read_pids, fileVars,
                   programVars, publishVars, childVars>>

ControlTouch(s) ==
    /\ ctl[s] = "touch"
    /\ ctl' = [ctl EXCEPT ![s] = "test"]
    /\ stop_file' = "present"
    /\ UNCHANGED <<cancellation_event, supervisorVars, read_pids, pid_file,
                   programVars, publishVars, childVars>>

\* test -s: an absent or an empty PID file ends the program.
ControlTest(s) ==
    /\ ctl[s] = "test"
    /\ ctl' = [ctl EXCEPT ![s] = IF pid_file = {} THEN "done" ELSE "cat"]
    /\ UNCHANGED <<cancellation_event, supervisorVars, read_pids, fileVars,
                   programVars, publishVars, childVars>>

\* The file may have been rewritten or removed since the test.
ControlCat(s) ==
    /\ ctl[s] = "cat"
    /\ ctl' = [ctl EXCEPT ![s] = "kill"]
    /\ read_pids' = [read_pids EXCEPT ![s] = pid_file]
    /\ UNCHANGED <<cancellation_event, supervisorVars, fileVars,
                   programVars, publishVars, childVars>>

ControlKill(s) ==
    /\ ctl[s] = "kill"
    /\ ctl' = [ctl EXCEPT ![s] = "done"]
    /\ Signal(read_pids[s], s)
    /\ UNCHANGED <<cancellation_event, supervisorVars, read_pids, fileVars,
                   programVars, publishVars, proc>>

Control(s) ==
    ControlTouch(s) \/ ControlTest(s) \/ ControlCat(s) \/ ControlKill(s)

-----------------------------------------------------------------------------
(* publish_children, a subroutine of every Fish operation.  A program      *)
(* calls it with Publish(S) and proceeds when publish is "idle" again.     *)

Publish(S) ==
    /\ publish = "idle"
    /\ publish' = "open"
    /\ argv' = S

\* The redirection >$pid_file truncates the file before printf writes to it.
PublishOpen ==
    /\ publish = "open"
    /\ publish' = "write"
    /\ pid_file' = {}
    /\ UNCHANGED <<cancellation_event, supervisorVars, controlVars, stop_file,
                   programVars, argv, childVars>>

PublishWrite ==
    /\ publish = "write"
    /\ publish' = "test"
    /\ pid_file' = argv
    /\ UNCHANGED <<cancellation_event, supervisorVars, controlVars, stop_file,
                   programVars, argv, childVars>>

\* Mutant: publish_children does not look for a stop file.
PublishWithoutTest ==
    /\ publish = "test"
    /\ publish' = "idle"
    /\ UNCHANGED <<cancellation_event, supervisorVars, controlVars, fileVars,
                   programVars, argv, childVars>>

\* test ! -e $stop_file || kill -TERM $argv
PublishTest ==
    /\ publish = "test"
    /\ publish' = IF stop_file = "present" THEN "kill" ELSE "idle"
    /\ UNCHANGED <<cancellation_event, supervisorVars, controlVars, fileVars,
                   programVars, argv, childVars>>

PublishKill ==
    /\ publish = "kill"
    /\ publish' = "idle"
    /\ Signal(argv, "TERM")
    /\ UNCHANGED <<cancellation_event, supervisorVars, controlVars, fileVars,
                   programVars, argv, proc>>

PublishChildren == PublishOpen \/ PublishWrite \/ PublishTest \/ PublishKill

-----------------------------------------------------------------------------
(* Children, and the steps every Fish program has in common.               *)

\* A child ends by itself or by a signal.  TERM lets it finish what it does;
\* KILL does not.
ChildExit(c) ==
    /\ Running(c)
    /\ \E outcome \in (IF "KILL" \in signalled[c]
                       THEN {"failed"} ELSE {"ok", "failed"}) :
          proc' = [proc EXCEPT ![c] = outcome]
    /\ UNCHANGED <<cancellation_event, supervisorVars, controlVars, fileVars,
                   programVars, publishVars, signalled>>

\* One of the ten reads meets the end of the input, and Fish exits.
ReadInputFails ==
    /\ fish = "input"
    /\ standard_input = "closed"
    /\ fish' = "exit"
    /\ status' = "nonzero"
    /\ UNCHANGED <<cancellation_event, supervisorVars, controlVars, fileVars,
                   publishVars, childVars>>

\* The fish_exit handler removes stop_file and the process ends.
FishExit ==
    /\ fish = "exit"
    /\ fish' = "exited"
    /\ stop_file' = "absent"
    /\ UNCHANGED <<cancellation_event, supervisorVars, controlVars, pid_file,
                   status, publishVars, childVars>>

\* The program moves from one step to another without touching the protocol,
\* and is to report code if it exits.
FishStep(from, to, code) ==
    /\ fish = from
    /\ publish = "idle"
    /\ fish' = to
    /\ status' = code
    /\ UNCHANGED <<cancellation_event, supervisorVars, controlVars, fileVars,
                   publishVars, childVars>>

\* The program starts child c as a background job.
StartChild(from, to, c) ==
    /\ fish = from
    /\ publish = "idle"
    /\ fish' = to
    /\ proc' = [proc EXCEPT ![c] = "running"]
    /\ UNCHANGED <<cancellation_event, supervisorVars, controlVars, fileVars,
                   status, publishVars, signalled>>

\* The program calls publish_children with the PIDs of S.
CallPublish(from, to, S) ==
    /\ fish = from
    /\ Publish(S)
    /\ fish' = to
    /\ UNCHANGED <<cancellation_event, supervisorVars, controlVars, fileVars,
                   status, childVars>>

\* Mutant: the PID file stays behind.
KeepPidFile(from, to) ==
    /\ fish = from
    /\ publish = "idle"
    /\ fish' = to
    /\ UNCHANGED <<cancellation_event, supervisorVars, controlVars, fileVars,
                   status, publishVars, childVars>>

\* rm -f $pid_file
RemovePidFile(from, to) ==
    /\ fish = from
    /\ publish = "idle"
    /\ fish' = to
    /\ pid_file' = {}
    /\ UNCHANGED <<cancellation_event, supervisorVars, controlVars, stop_file,
                   status, publishVars, childVars>>

-----------------------------------------------------------------------------
(* What the protocol promises.                                             *)

\* The control program for s will still signal c, or has not yet announced
\* itself through stop_file.
WillSignal(s, c) ==
    \/ ctl[s] \in {"off", "touch"}
    \/ ctl[s] \in {"test", "cat"} /\ c \in pid_file
    \/ ctl[s] = "kill" /\ c \in read_pids[s]

\* A stop request never misses a child: between the control program, which
\* creates stop_file and then reads pid_file, and publish_children, which
\* writes pid_file and then tests stop_file, at least one of the two signals
\* every running child of the latest publication.  Once a control program has
\* ended and the publication is over, each such child has been signalled.
StopRequestReachesChildren ==
    \A s \in Signals, c \in argv :
        (ctl[s] = "done" /\ publish = "idle" /\ Running(c))
            => signalled[c] # {}

\* Children are signalled only on behalf of a cancelled operation: no control
\* program and no publication signals a child before the event is signaled.
SignalOnlyWhenCancelled ==
    \A c \in Children :
        signalled[c] # {} => cancellation_event = "signaled"

\* A control program started after Fish has exited finds no PID to signal:
\* every operation removes its PID file before it exits.
NoPidsAfterExit == fish = "exited" => pid_file = {}

=============================================================================
