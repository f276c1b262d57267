------------------------------ MODULE ViewFish ------------------------------
(***************************************************************************)
(* The view operation of start-pbs.fish: run_view maps one PBS archive and *)
(* serves it through Samba.  Besides the two children it publishes, the    *)
(* mapper and Samba, it starts a reader of the mapper's output, which is   *)
(* never published.  Two FIFOs join the three programs; opening one blocks *)
(* until the other end is opened, so each opening is one step of two       *)
(* programs.                                                               *)
(***************************************************************************)
EXTENDS PbsControl

CONSTANTS
    mapper,     \* proxmox-backup-client map
    samba       \* samba_dcerpcd

VARIABLES
    reader,                 \* where read_view_map_output is
    reaped,                 \* the mapper's exit was noticed before cleanup
    termination_requested   \* of finish_view

viewFishVars == <<reader, reaped, termination_requested>>

ASSUME ViewFishAssumption ==
    /\ mapper # samba
    /\ Children = {mapper, samba}

ViewFishStates ==
    {"unborn", "input", "mktemp", "mkfifo", "reader", "mapper",
     "publish", "device", "prepare", "samba", "publish_samba", "wait_samba",
     "rm_samba", "test_stop", "finish", "open_pids", "write_pids", "kill",
     "wait_mapper", "rm_mapper", "wait_reader", "rm_root", "exit", "exited"}

\* "report" and "report_empty" wait for run_view to open the other FIFO.
ReaderAlive == {"open", "drain", "report", "report_empty", "drain_ready"}

ViewFishTypeOK ==
    /\ PbsTypeOK
    /\ fish \in ViewFishStates
    /\ reader \in ReaderAlive \cup {"unborn", "exited", "failed"}
    /\ reaped \in BOOLEAN
    /\ termination_requested \in BOOLEAN

ViewFishInit ==
    /\ PbsInit
    /\ reader = "unborn"
    /\ reaped = FALSE
    /\ termination_requested = FALSE

-----------------------------------------------------------------------------
(* run_view up to the mapped device.                                       *)

ReadInput ==
    /\ standard_input = "complete"
    /\ FishStep("input", "mktemp", status)
    /\ UNCHANGED viewFishVars

MakeRoot ==
    /\ \/ FishStep("mktemp", "mkfifo", status)
       \/ FishStep("mktemp", "exit", "nonzero")
    /\ UNCHANGED viewFishVars

\* The two FIFOs and the reader's program.
MakeFifos ==
    /\ \/ FishStep("mkfifo", "reader", status)
       \/ FishStep("mkfifo", "finish", "nonzero")
    /\ UNCHANGED viewFishVars

StartReader ==
    /\ FishStep("reader", "mapper", status)
    /\ reader' = "open"
    /\ UNCHANGED <<reaped, termination_requested>>

\* Fish opens map_output for the mapper's redirection, which waits for the
\* reader to open it too.
StartMapper ==
    /\ reader = "open"
    /\ StartChild("mapper", "publish", mapper)
    /\ reader' = "drain"
    /\ UNCHANGED <<reaped, termination_requested>>

PublishMapper ==
    /\ CallPublish("publish", "device", {mapper})
    /\ UNCHANGED viewFishVars

\* read <$mapped_device_output takes the path that the reader reports ...
ReadDevice ==
    /\ reader = "report"
    /\ FishStep("device", "prepare", status)
    /\ reader' = "drain_ready"
    /\ UNCHANGED <<reaped, termination_requested>>

\* ... or an empty line, or the end of a FIFO whose writer died on it.
ReadNoDevice ==
    /\ reader \in {"report", "report_empty"}
    /\ FishStep("device", "finish", "nonzero")
    /\ reader' \in (IF reader = "report_empty" THEN {"exited", "failed"}
                    ELSE {"failed"})
    /\ UNCHANGED <<reaped, termination_requested>>

-----------------------------------------------------------------------------
(* Samba.                                                                  *)

PrepareViewSamba ==
    /\ \/ FishStep("prepare", "samba", status)
       \/ FishStep("prepare", "finish", "nonzero")
    /\ UNCHANGED viewFishVars

StartSamba ==
    /\ StartChild("samba", "publish_samba", samba)
    /\ UNCHANGED viewFishVars

\* wait_for_published_child
PublishSamba ==
    /\ CallPublish("publish_samba", "wait_samba", {samba})
    /\ UNCHANGED viewFishVars

WaitSamba ==
    /\ Exited(samba)
    /\ FishStep("wait_samba", "rm_samba",
                IF proc[samba] = "ok" THEN status ELSE "nonzero")
    /\ reaped' = Exited(mapper)
    /\ UNCHANGED <<reader, termination_requested>>

RemoveSambaPid ==
    /\ RemovePidFile("rm_samba", "test_stop")
    /\ UNCHANGED viewFishVars

\* A requested termination is not Samba's failure.
TestStopFile ==
    /\ FishStep("test_stop", "finish",
                IF stop_file = "present" THEN "zero" ELSE status)
    /\ UNCHANGED viewFishVars

-----------------------------------------------------------------------------
(* finish_view.                                                            *)

FinishView ==
    /\ FishStep("finish",
                IF proc[mapper] = "unborn" THEN "wait_reader" ELSE "open_pids",
                status)
    /\ termination_requested' = (stop_file = "present")
    /\ UNCHANGED <<reader, reaped>>

\* echo $view_map_pid >$pid_file: the redirection empties the file ...
TruncatePids ==
    /\ RemovePidFile("open_pids", "write_pids")
    /\ UNCHANGED viewFishVars

\* ... and echo fills it.
WriteMapperPid ==
    /\ fish = "write_pids"
    /\ fish' = "kill"
    /\ pid_file' = {mapper}
    /\ UNCHANGED <<cancellation_event, supervisorVars, controlVars, stop_file,
                   status, publishVars, childVars, viewFishVars>>

\* kill also succeeds for a mapper that has exited and was not reaped yet.
KillMapper ==
    /\ fish = "kill"
    /\ fish' = "wait_mapper"
    /\ Signal({mapper}, "TERM")
    /\ termination_requested' \in
          (IF Running(mapper) THEN {TRUE}
           ELSE IF reaped THEN {termination_requested}
           ELSE {termination_requested, TRUE})
    /\ UNCHANGED <<cancellation_event, supervisorVars, controlVars, fileVars,
                   status, publishVars, proc, reader, reaped>>

\* Mutant: the mapper's exit code is never looked at.
WaitMapperForgiving ==
    /\ Exited(mapper)
    /\ FishStep("wait_mapper", "rm_mapper", status)
    /\ termination_requested' = FALSE
    /\ UNCHANGED <<reader, reaped>>

WaitMapper ==
    /\ Exited(mapper)
    /\ FishStep("wait_mapper", "rm_mapper",
                IF proc[mapper] = "failed" /\ ~termination_requested
                THEN "nonzero" ELSE status)
    /\ termination_requested' = FALSE
    /\ UNCHANGED <<reader, reaped>>

RemoveMapperPid ==
    /\ RemovePidFile("rm_mapper", "wait_reader")
    /\ UNCHANGED viewFishVars

WaitReader ==
    /\ reader \notin ReaderAlive
    /\ FishStep("wait_reader", "rm_root",
                IF reader = "failed" THEN "nonzero" ELSE status)
    /\ UNCHANGED viewFishVars

RemoveRoot ==
    /\ \/ FishStep("rm_root", "exit", status)
       \/ FishStep("rm_root", "exit", "nonzero")
    /\ UNCHANGED viewFishVars

ViewProgram ==
    \/ ReadInput \/ MakeRoot \/ MakeFifos \/ StartReader
    \/ StartMapper \/ PublishMapper \/ ReadDevice \/ ReadNoDevice
    \/ PrepareViewSamba \/ StartSamba \/ PublishSamba \/ WaitSamba
    \/ RemoveSambaPid \/ TestStopFile
    \/ FinishView \/ TruncatePids \/ WriteMapperPid \/ KillMapper
    \/ WaitMapper \/ RemoveMapperPid \/ WaitReader \/ RemoveRoot
    \/ (ReadInputFails \/ PublishChildren \/ FishExit)
          /\ UNCHANGED viewFishVars

-----------------------------------------------------------------------------
(* read_view_map_output, and what the children write.                      *)

\* The mapper prints the path of the mapped device and the reader finds it.
ReaderReadsLine ==
    /\ reader = "drain"
    /\ Running(mapper)
    /\ reader' = "report"
    /\ UNCHANGED <<pbsVars, reaped, termination_requested>>

\* Mutant: at the end of the output the reader ends without its empty line.
ReaderEofSilent ==
    /\ reader \in {"drain", "drain_ready"}
    /\ Exited(mapper)
    /\ reader' = "exited"
    /\ UNCHANGED <<pbsVars, reaped, termination_requested>>

\* The mapper has closed map_output.
ReaderEof ==
    /\ reader \in {"drain", "drain_ready"}
    /\ Exited(mapper)
    /\ reader' = IF reader = "drain" THEN "report_empty" ELSE "exited"
    /\ UNCHANGED <<pbsVars, reaped, termination_requested>>

\* Nobody supervises the reader; it may crash or be killed.
ReaderDies ==
    /\ reader \in ReaderAlive
    /\ reader' = "failed"
    /\ UNCHANGED <<pbsVars, reaped, termination_requested>>

-----------------------------------------------------------------------------
(* Properties.                                                             *)

\* The two places where Fish waits for the other end of a FIFO and the reader
\* that would open it is gone.
StuckOnFifo == reader = "failed" /\ fish \in {"mapper", "device"}

\* A TERM request ends the view, in whichever of its three waits it finds it
\* and although it reaches only the child that is published at the moment.  The
\* one exception is a reader that died on Fish: nothing opens the FIFO then.
TermEndsView == ctl["TERM"] = "done" ~> (fish = "exited" \/ StuckOnFifo)

\* A view that ends by itself reports 0 only if Samba, the reader and, unless
\* finish_view itself stopped it, the mapper succeeded; a mapper that failed
\* while Samba went on serving is not taken for one that was stopped.
ZeroMeansServed ==
    (fish = "exited" /\ status = "zero" /\ \A s \in Signals : ctl[s] = "off")
        => /\ proc[samba] = "ok"
           /\ reader = "exited"
           /\ reaped => proc[mapper] = "ok"

=============================================================================
