------------------------- MODULE CatalogFishProofs --------------------------
(***************************************************************************)
(* Proofs about CatalogFish, for any set of namespaces: type correctness   *)
(* and the promises of the control protocol over many publications.        *)
(***************************************************************************)
EXTENDS CatalogFish, TLAPS

-----------------------------------------------------------------------------
(* The inductive invariant.                                                *)

Stopping == {"stop", "sendTERM", "waitTERM", "sendKILL", "waitKILL"}

\* Before the first publication, and after the queries have been waited for.
Unpublished == {"unborn", "input", "prepare", "discover", "query", "publish"}
Published == {"waitDiscovery", "next", "republish"}
Waited == {"remove", "assemble", "exit", "exited"}

\* Which children there are at each step of the program.
ChildrenInv ==
    /\ sup = "start" => fish = "unborn"
    /\ \A c \in Children :
          proc[c] # "unborn" => c \in children \cup {discovery}
    /\ fish \in {"unborn", "input", "prepare", "discover"}
          => proc[discovery] = "unborn"
    /\ fish \in {"query", "publish"} => proc[discovery] # "unborn"
    /\ fish \in Unpublished \ {"publish"} => children = {}
    /\ fish \in {"next", "republish"} => Exited(discovery)
    /\ fish \in Waited => \A c \in Children : ~ Running(c)
    /\ fish \in {"publish", "waitDiscovery"} => children = {first}
    /\ \A c \in children : proc[c] # "unborn"
    /\ \A q \in pending : proc[q] = "unborn"

\* What was published, and what is in the PID file.
PublicationInv ==
    /\ fish \notin {"waitDiscovery", "next"} => publish = "idle"
    /\ fish \in Unpublished => argv = {}
    /\ \A c \in argv : proc[c] # "unborn"
    /\ fish \in {"waitDiscovery", "next"} =>
          \A c \in Children : Running(c) => c \in argv
    /\ (fish \in Published /\ publish \in {"idle", "test", "kill"})
          => pid_file = argv
    /\ fish \notin Published \cup {"remove"} => pid_file = {}

\* The rendezvous of the control program and publish_children.
RendezvousInv ==
    /\ \A s \in Signals :
          (ctl[s] \notin {"off", "touch"} /\ fish # "exited")
              => stop_file = "present"
    /\ (fish \in Published /\ publish = "idle") =>
          \A c \in argv :
              (Running(c) /\ signalled[c] = {})
                  => \A s \in Signals : WillSignal(s, c)

\* Nothing of a stop request exists before the event is signaled.
CancelInv ==
    cancellation_event = "reset" =>
        /\ sup \notin Stopping
        /\ \A s \in Signals : ctl[s] = "off"
        /\ stop_file = "absent"
        /\ publish # "kill"
        /\ \A c \in Children : signalled[c] = {}

IInv ==
    /\ TypeOK
    /\ ChildrenInv
    /\ PublicationInv
    /\ RendezvousInv
    /\ CancelInv

-----------------------------------------------------------------------------
(* The invariant holds initially and every action preserves it.            *)

\* Before the supervisor starts WSL there is no child to publish or to signal.
LEMMA InitEstablishesIInv == Init => IInv
  <1> SUFFICES ASSUME Init PROVE IInv
    OBVIOUS
  <1>1. TypeOK
    BY CatalogAssumption DEF Init, PbsInit, TypeOK, PbsTypeOK,
        SupervisorStates, ExitCodes, Signals, ControlStates, PublishStates,
        ProcessStates, CatalogStates
  <1>2. ChildrenInv /\ PublicationInv
    BY CatalogAssumption DEF Init, PbsInit, ChildrenInv, PublicationInv,
        Unpublished, Published, Waited, Exited, Running
  <1>3. RendezvousInv /\ CancelInv
    BY DEF Init, PbsInit, RendezvousInv, CancelInv, Published, Stopping
  <1> QED
    BY <1>1, <1>2, <1>3 DEF IInv

\* Type correctness needs nothing but itself.
LEMMA TypeOKInductive ==
    TypeOK /\ [Next]_vars => TypeOK'
  <1> SUFFICES ASSUME TypeOK, [Next]_vars
               PROVE  TypeOK'
    OBVIOUS
  <1> USE CatalogAssumption DEF TypeOK, PbsTypeOK, SupervisorStates, ExitCodes,
        Signals, ControlStates, PublishStates, ProcessStates, CatalogStates,
        Running, Exited, controlVars, supervisorVars, publishVars, fileVars,
        childVars, programVars, catalogVars
  <1>1. CASE Supervisor /\ UNCHANGED catalogVars
    BY <1>1 DEF Supervisor, StartWslFishProcess, StartWslFishProcessThrows,
        WriteInput, WriteInputThrows, FinishWsl, PollCancelled,
        KillGraceExpires, StartSignal, StartSignalThrows, SignalReturns
  <1>2. CASE (\E s \in Signals : Control(s)) /\ UNCHANGED catalogVars
    BY <1>2 DEF Control, ControlTouch, ControlTest, ControlCat, ControlKill,
        Signal
  <1>3. CASE RequestCancellation /\ UNCHANGED catalogVars
    BY <1>3 DEF RequestCancellation
  <1>4. CASE (\E c \in Children : ChildExit(c)) /\ UNCHANGED catalogVars
    BY <1>4 DEF ChildExit
  <1>5. CASE PublishChildren /\ UNCHANGED catalogVars
    BY <1>5 DEF PublishChildren, PublishOpen, PublishWrite, PublishTest,
        PublishKill, Signal
  <1>6. CASE (ReadInputFails \/ FishExit) /\ UNCHANGED catalogVars
    BY <1>6 DEF ReadInputFails, FishExit
  <1>7. CASE \/ ReadInput \/ MakeDirectory \/ MakeDirectoryFails
             \/ WaitDiscovery \/ WaitChildren \/ Assemble \/ AssembleFails
    BY <1>7 DEF ReadInput, MakeDirectory, MakeDirectoryFails, WaitDiscovery,
        WaitChildren, Assemble, AssembleFails, FishStep
  <1>8. CASE StartDiscovery \/ StartFirstQuery
    BY <1>8 DEF StartDiscovery, StartFirstQuery, StartChild
  <1>9. CASE \E q \in Others : StartQuery(q)
    BY <1>9 DEF StartQuery, StartChild
  <1>10. CASE PublishDiscovery \/ PublishQueries
    BY <1>10 DEF PublishDiscovery, PublishQueries, CallPublish, Publish
  <1>11. CASE RemovePids
    BY <1>11 DEF RemovePids, RemovePidFile
  <1>12. CASE UNCHANGED vars
    BY <1>12 DEF vars, pbsVars
  <1> QED
    BY <1>1, <1>2, <1>3, <1>4, <1>5, <1>6, <1>7, <1>8, <1>9, <1>10, <1>11,
        <1>12
    DEF Next, Program, Environment, Terminated

\* The program waits for every child it has started.
LEMMA ChildrenInvInductive ==
    TypeOK /\ ChildrenInv /\ [Next]_vars => ChildrenInv'
  <1> SUFFICES ASSUME TypeOK, ChildrenInv, [Next]_vars
               PROVE  ChildrenInv'
    OBVIOUS
  <1> USE CatalogAssumption DEF TypeOK, PbsTypeOK, ChildrenInv, Unpublished,
        Waited, Running, Exited, Signals, controlVars, supervisorVars,
        publishVars, fileVars, childVars, programVars, catalogVars
  <1>1. CASE Supervisor /\ UNCHANGED catalogVars
    BY <1>1 DEF Supervisor, StartWslFishProcess, StartWslFishProcessThrows,
        WriteInput, WriteInputThrows, FinishWsl, PollCancelled,
        KillGraceExpires, StartSignal, StartSignalThrows, SignalReturns
  <1>2. CASE (\E s \in Signals : Control(s)) /\ UNCHANGED catalogVars
    BY <1>2 DEF Control, ControlTouch, ControlTest, ControlCat, ControlKill,
        Signal
  <1>3. CASE RequestCancellation /\ UNCHANGED catalogVars
    BY <1>3 DEF RequestCancellation
  <1>4. CASE (\E c \in Children : ChildExit(c)) /\ UNCHANGED catalogVars
    BY <1>4 DEF ChildExit
  <1>5. CASE PublishChildren /\ UNCHANGED catalogVars
    BY <1>5 DEF PublishChildren, PublishOpen, PublishWrite, PublishTest,
        PublishKill, Signal
  <1>6. CASE (ReadInputFails \/ FishExit) /\ UNCHANGED catalogVars
    BY <1>6 DEF ReadInputFails, FishExit
  <1>7. CASE \/ ReadInput \/ MakeDirectory \/ MakeDirectoryFails
             \/ WaitDiscovery \/ WaitChildren \/ Assemble \/ AssembleFails
    BY <1>7 DEF ReadInput, MakeDirectory, MakeDirectoryFails, WaitDiscovery,
        WaitChildren, Assemble, AssembleFails, FishStep
  <1>8. CASE StartDiscovery \/ StartFirstQuery
    BY <1>8 DEF StartDiscovery, StartFirstQuery, StartChild
  <1>9. CASE \E q \in Others : StartQuery(q)
    BY <1>9 DEF StartQuery, StartChild
  <1>10. CASE PublishDiscovery \/ PublishQueries
    BY <1>10 DEF PublishDiscovery, PublishQueries, CallPublish, Publish
  <1>11. CASE RemovePids
    BY <1>11 DEF RemovePids, RemovePidFile
  <1>12. CASE UNCHANGED vars
    BY <1>12 DEF vars, pbsVars
  <1> QED
    BY <1>1, <1>2, <1>3, <1>4, <1>5, <1>6, <1>7, <1>8, <1>9, <1>10, <1>11,
        <1>12
    DEF Next, Program, Environment, Terminated

\* No publication drops a child that is still running.
LEMMA PublicationInvInductive ==
    TypeOK /\ ChildrenInv /\ PublicationInv /\ [Next]_vars => PublicationInv'
  <1> SUFFICES ASSUME TypeOK, ChildrenInv, PublicationInv, [Next]_vars
               PROVE  PublicationInv'
    OBVIOUS
  <1> USE CatalogAssumption DEF TypeOK, PbsTypeOK, ChildrenInv, PublicationInv,
        Unpublished, Published, Waited, Running, Exited, Signals,
        controlVars, supervisorVars, publishVars, fileVars,
        childVars, programVars, catalogVars
  <1>1. CASE Supervisor /\ UNCHANGED catalogVars
    BY <1>1 DEF Supervisor, StartWslFishProcess, StartWslFishProcessThrows,
        WriteInput, WriteInputThrows, FinishWsl, PollCancelled,
        KillGraceExpires, StartSignal, StartSignalThrows, SignalReturns
  <1>2. CASE (\E s \in Signals : Control(s)) /\ UNCHANGED catalogVars
    BY <1>2 DEF Control, ControlTouch, ControlTest, ControlCat, ControlKill,
        Signal
  <1>3. CASE RequestCancellation /\ UNCHANGED catalogVars
    BY <1>3 DEF RequestCancellation
  <1>4. CASE (\E c \in Children : ChildExit(c)) /\ UNCHANGED catalogVars
    BY <1>4 DEF ChildExit
  <1>5. CASE PublishChildren /\ UNCHANGED catalogVars
    BY <1>5 DEF PublishChildren, PublishOpen, PublishWrite, PublishTest,
        PublishKill, Signal
  <1>6. CASE (ReadInputFails \/ FishExit) /\ UNCHANGED catalogVars
    BY <1>6 DEF ReadInputFails, FishExit
  <1>7. CASE \/ ReadInput \/ MakeDirectory \/ MakeDirectoryFails
             \/ WaitDiscovery \/ WaitChildren \/ Assemble \/ AssembleFails
    BY <1>7 DEF ReadInput, MakeDirectory, MakeDirectoryFails, WaitDiscovery,
        WaitChildren, Assemble, AssembleFails, FishStep
  <1>8. CASE StartDiscovery \/ StartFirstQuery
    BY <1>8 DEF StartDiscovery, StartFirstQuery, StartChild
  <1>9. CASE \E q \in Others : StartQuery(q)
    BY <1>9 DEF StartQuery, StartChild
  <1>10. CASE PublishDiscovery \/ PublishQueries
    BY <1>10 DEF PublishDiscovery, PublishQueries, CallPublish, Publish
  <1>11. CASE RemovePids
    BY <1>11 DEF RemovePids, RemovePidFile
  <1>12. CASE UNCHANGED vars
    BY <1>12 DEF vars, pbsVars
  <1> QED
    BY <1>1, <1>2, <1>3, <1>4, <1>5, <1>6, <1>7, <1>8, <1>9, <1>10, <1>11,
        <1>12
    DEF Next, Program, Environment, Terminated

\* A signal, and the stop file, go back to the event.
LEMMA CancelInvInductive ==
    TypeOK /\ CancelInv /\ [Next]_vars => CancelInv'
  <1> SUFFICES ASSUME TypeOK, CancelInv, [Next]_vars
               PROVE  CancelInv'
    OBVIOUS
  <1> USE CatalogAssumption DEF TypeOK, PbsTypeOK, CancelInv, Stopping,
        Running, Exited, Signals, controlVars, supervisorVars, publishVars,
        fileVars, childVars, programVars, catalogVars
  <1>1. CASE Supervisor /\ UNCHANGED catalogVars
    BY <1>1 DEF Supervisor, StartWslFishProcess, StartWslFishProcessThrows,
        WriteInput, WriteInputThrows, FinishWsl, PollCancelled,
        KillGraceExpires, StartSignal, StartSignalThrows, SignalReturns
  <1>2. CASE (\E s \in Signals : Control(s)) /\ UNCHANGED catalogVars
    BY <1>2 DEF Control, ControlTouch, ControlTest, ControlCat, ControlKill,
        Signal
  <1>3. CASE RequestCancellation /\ UNCHANGED catalogVars
    BY <1>3 DEF RequestCancellation
  <1>4. CASE (\E c \in Children : ChildExit(c)) /\ UNCHANGED catalogVars
    BY <1>4 DEF ChildExit
  <1>5. CASE PublishChildren /\ UNCHANGED catalogVars
    BY <1>5 DEF PublishChildren, PublishOpen, PublishWrite, PublishTest,
        PublishKill, Signal
  <1>6. CASE (ReadInputFails \/ FishExit) /\ UNCHANGED catalogVars
    BY <1>6 DEF ReadInputFails, FishExit
  <1>7. CASE \/ ReadInput \/ MakeDirectory \/ MakeDirectoryFails
             \/ WaitDiscovery \/ WaitChildren \/ Assemble \/ AssembleFails
    BY <1>7 DEF ReadInput, MakeDirectory, MakeDirectoryFails, WaitDiscovery,
        WaitChildren, Assemble, AssembleFails, FishStep
  <1>8. CASE StartDiscovery \/ StartFirstQuery
    BY <1>8 DEF StartDiscovery, StartFirstQuery, StartChild
  <1>9. CASE \E q \in Others : StartQuery(q)
    BY <1>9 DEF StartQuery, StartChild
  <1>10. CASE PublishDiscovery \/ PublishQueries
    BY <1>10 DEF PublishDiscovery, PublishQueries, CallPublish, Publish
  <1>11. CASE RemovePids
    BY <1>11 DEF RemovePids, RemovePidFile
  <1>12. CASE UNCHANGED vars
    BY <1>12 DEF vars, pbsVars
  <1> QED
    BY <1>1, <1>2, <1>3, <1>4, <1>5, <1>6, <1>7, <1>8, <1>9, <1>10, <1>11,
        <1>12
    DEF Next, Program, Environment, Terminated

\* Whoever comes second, the control program or publish_children, sees the other.
LEMMA RendezvousInvInductive ==
    TypeOK /\ ChildrenInv /\ PublicationInv /\ RendezvousInv /\ [Next]_vars
        => RendezvousInv'
  <1> SUFFICES ASSUME TypeOK, ChildrenInv, PublicationInv, RendezvousInv, [Next]_vars
               PROVE  RendezvousInv'
    OBVIOUS
  <1> USE CatalogAssumption DEF TypeOK, PbsTypeOK, ChildrenInv, PublicationInv,
        RendezvousInv, WillSignal, Unpublished, Published, Waited, Running,
        Exited, Signals, controlVars, supervisorVars, publishVars, fileVars,
        childVars, programVars, catalogVars
  <1>1. CASE Supervisor /\ UNCHANGED catalogVars
    BY <1>1 DEF Supervisor, StartWslFishProcess, StartWslFishProcessThrows,
        WriteInput, WriteInputThrows, FinishWsl, PollCancelled,
        KillGraceExpires, StartSignal, StartSignalThrows, SignalReturns
  <1>2. CASE (\E s \in Signals : Control(s)) /\ UNCHANGED catalogVars
    BY <1>2 DEF Control, ControlTouch, ControlTest, ControlCat, ControlKill,
        Signal
  <1>3. CASE RequestCancellation /\ UNCHANGED catalogVars
    BY <1>3 DEF RequestCancellation
  <1>4. CASE (\E c \in Children : ChildExit(c)) /\ UNCHANGED catalogVars
    BY <1>4 DEF ChildExit
  <1>5. CASE PublishChildren /\ UNCHANGED catalogVars
    BY <1>5 DEF PublishChildren, PublishOpen, PublishWrite, PublishTest,
        PublishKill, Signal
  <1>6. CASE (ReadInputFails \/ FishExit) /\ UNCHANGED catalogVars
    BY <1>6 DEF ReadInputFails, FishExit
  <1>7. CASE \/ ReadInput \/ MakeDirectory \/ MakeDirectoryFails
             \/ WaitDiscovery \/ WaitChildren \/ Assemble \/ AssembleFails
    BY <1>7 DEF ReadInput, MakeDirectory, MakeDirectoryFails, WaitDiscovery,
        WaitChildren, Assemble, AssembleFails, FishStep
  <1>8. CASE StartDiscovery \/ StartFirstQuery
    BY <1>8 DEF StartDiscovery, StartFirstQuery, StartChild
  <1>9. CASE \E q \in Others : StartQuery(q)
    BY <1>9 DEF StartQuery, StartChild
  <1>10. CASE PublishDiscovery \/ PublishQueries
    BY <1>10 DEF PublishDiscovery, PublishQueries, CallPublish, Publish
  <1>11. CASE RemovePids
    BY <1>11 DEF RemovePids, RemovePidFile
  <1>12. CASE UNCHANGED vars
    BY <1>12 DEF vars, pbsVars
  <1> QED
    BY <1>1, <1>2, <1>3, <1>4, <1>5, <1>6, <1>7, <1>8, <1>9, <1>10, <1>11,
        <1>12
    DEF Next, Program, Environment, Terminated

\* IInv is an invariant of the catalogue program.
LEMMA IInvInvariant == Spec => []IInv
  <1>1. IInv /\ [Next]_vars => IInv'
    BY TypeOKInductive, ChildrenInvInductive, PublicationInvInductive,
        CancelInvInductive, RendezvousInvInductive DEF IInv
  <1> QED
    BY InitEstablishesIInv, <1>1, PTL DEF Spec

-----------------------------------------------------------------------------
(* The properties, for any set of namespaces.                              *)

\* Every variable of the supervisor, the control programs and the catalog
\* program keeps to its values.
THEOREM TypeCorrect == Spec => []TypeOK
  <1>1. IInv => TypeOK
    BY DEF IInv
  <1> QED
    BY IInvInvariant, <1>1, PTL

\* However many queries collect_backup_catalog starts and republishes, and
\* wherever between them SendPbsFishSignal arrives, a request that has ended
\* left no published query unsignalled.
THEOREM StopRequestIsNotLost == Spec => []StopRequestReachesChildren
  <1>1. IInv => StopRequestReachesChildren
    BY CatalogAssumption
    DEF IInv, TypeOK, PbsTypeOK, ChildrenInv, PublicationInv, RendezvousInv,
        WillSignal, StopRequestReachesChildren, CatalogStates, Unpublished,
        Published, Waited
  <1> QED
    BY IInvInvariant, <1>1, PTL

\* A later call of publish_children overwrites the PID file of an earlier one
\* without losing a query that is still running.
THEOREM PublicationIsComplete == Spec => []EveryRunningChildIsPublished
  <1>1. IInv => EveryRunningChildIsPublished
    BY DEF IInv, PublicationInv, EveryRunningChildIsPublished, Published
  <1> QED
    BY IInvInvariant, <1>1, PTL

\* collect_backup_catalog leaves no query behind, on whatever path Fish exits.
THEOREM EveryChildWaitedFor == Spec => []NoChildOutlivesFish
  <1>1. IInv => NoChildOutlivesFish
    BY DEF IInv, ChildrenInv, NoChildOutlivesFish, Waited
  <1> QED
    BY IInvInvariant, <1>1, PTL

\* RunPbsFish signals a query only after its event was signaled.
THEOREM SignalNeedsCancellation == Spec => []SignalOnlyWhenCancelled
  <1>1. IInv => SignalOnlyWhenCancelled
    BY DEF IInv, TypeOK, PbsTypeOK, CancelInv, SignalOnlyWhenCancelled
  <1> QED
    BY IInvInvariant, <1>1, PTL

\* list_backups leaves no PID behind, on whatever path it exits.
THEOREM PidFileRemoved == Spec => []NoPidsAfterExit
  <1>1. IInv => NoPidsAfterExit
    BY DEF IInv, PublicationInv, NoPidsAfterExit, Published
  <1> QED
    BY IInvInvariant, <1>1, PTL

=============================================================================
