---------------------------- MODULE CatalogFish -----------------------------
(***************************************************************************)
(* The catalog operation of start-pbs.fish (list_backups,                  *)
(* collect_backup_catalog, start_catalog_query) under RunPbsFish.  Fish    *)
(* discovers the child namespaces while it queries the starting one, then  *)
(* starts one query per discovered namespace and publishes the enlarged    *)
(* set of children after each, so that publications and stop requests      *)
(* interleave many times in one operation.                                 *)
(***************************************************************************)
EXTENDS PbsControl

CONSTANTS
    discovery,  \* the child that runs namespace list
    first,      \* the snapshot list query of the starting namespace
    Others      \* the queries of the namespaces discovery can report

VARIABLES
    pending,    \* the discovered namespaces' queries not started yet
    children,   \* the queries started so far
    catalog     \* the queries whose snapshots were printed

catalogVars == <<pending, children, catalog>>
vars == <<pbsVars, catalogVars>>

ASSUME CatalogAssumption ==
    /\ discovery # first
    /\ discovery \notin Others
    /\ first \notin Others
    /\ Children = {discovery, first} \cup Others

CatalogStates ==
    {"unborn", "input", "prepare", "discover", "query", "publish",
     "waitDiscovery", "next", "republish", "remove", "assemble",
     "exit", "exited"}

TypeOK ==
    /\ PbsTypeOK
    /\ fish \in CatalogStates
    /\ pending \in SUBSET Others
    /\ children \in SUBSET ({first} \cup Others)
    /\ catalog \in SUBSET ({first} \cup Others)

Init ==
    /\ PbsInit
    /\ pending = {}
    /\ children = {}
    /\ catalog = {}

-----------------------------------------------------------------------------

ReadInput ==
    /\ standard_input = "complete"
    /\ FishStep("input", "prepare", status)
    /\ UNCHANGED catalogVars

\* mktemp -d in list_backups.
MakeDirectory ==
    /\ FishStep("prepare", "discover", status)
    /\ UNCHANGED catalogVars

MakeDirectoryFails ==
    /\ FishStep("prepare", "exit", "nonzero")
    /\ UNCHANGED catalogVars

StartDiscovery ==
    /\ StartChild("discover", "query", discovery)
    /\ UNCHANGED catalogVars

StartFirstQuery ==
    /\ StartChild("query", "publish", first)
    /\ children' = {first}
    /\ UNCHANGED <<pending, catalog>>

PublishDiscovery ==
    /\ CallPublish("publish", "waitDiscovery", {discovery} \cup children)
    /\ UNCHANGED catalogVars

\* wait $discovery.  A failed query or an unreadable answer leaves the starting
\* namespace only: its output was removed, or jq failed on it.
WaitDiscovery ==
    /\ Exited(discovery)
    /\ FishStep("waitDiscovery", "next", status)
    /\ pending' \in (IF proc[discovery] = "ok" THEN SUBSET Others ELSE {{}})
    /\ UNCHANGED <<children, catalog>>

\* Mutant: set children $last_pid without --append.
StartQueryForgetting(q) ==
    /\ q \in pending
    /\ StartChild("next", "republish", q)
    /\ pending' = pending \ {q}
    /\ children' = {q}
    /\ UNCHANGED catalog

\* One iteration of the loop over the discovered namespaces.
StartQuery(q) ==
    /\ q \in pending
    /\ StartChild("next", "republish", q)
    /\ pending' = pending \ {q}
    /\ children' = children \cup {q}
    /\ UNCHANGED catalog

PublishQueries ==
    /\ CallPublish("republish", "next", children)
    /\ UNCHANGED catalogVars

\* Mutant: no wait for the queries.
WaitChildrenNot ==
    /\ pending = {}
    /\ FishStep("next", "remove", status)
    /\ UNCHANGED catalogVars

\* wait $children
WaitChildren ==
    /\ pending = {}
    /\ \A q \in children : Exited(q)
    /\ FishStep("next", "remove", status)
    /\ UNCHANGED catalogVars

RemovePids ==
    /\ RemovePidFile("remove", "assemble")
    /\ UNCHANGED catalogVars

\* A query that failed has no output file and is passed over.
Assemble ==
    /\ FishStep("assemble", "exit", "zero")
    /\ catalog' = {q \in children : proc[q] = "ok"}
    /\ UNCHANGED <<pending, children>>

\* jq fails on one of the outputs or on their collection.
AssembleFails ==
    /\ FishStep("assemble", "exit", "nonzero")
    /\ UNCHANGED catalogVars

Program ==
    \/ ReadInput \/ MakeDirectory \/ MakeDirectoryFails
    \/ StartDiscovery \/ StartFirstQuery \/ PublishDiscovery \/ WaitDiscovery
    \/ (\E q \in Others : StartQuery(q)) \/ PublishQueries
    \/ WaitChildren \/ RemovePids \/ Assemble \/ AssembleFails
    \/ (ReadInputFails \/ PublishChildren \/ FishExit) /\ UNCHANGED catalogVars

Environment ==
    /\ \/ RequestCancellation
       \/ Supervisor
       \/ \E s \in Signals : Control(s)
       \/ \E c \in Children : ChildExit(c)
    /\ UNCHANGED catalogVars

\* RunPbsFish is over and no process is left that could take a step.
Terminated ==
    /\ sup \in {"finished", "threw"}
    /\ fish \in {"unborn", "exited"}
    /\ \A s \in Signals : ctl[s] \in {"off", "done"}
    /\ UNCHANGED vars

Next == Program \/ Environment \/ Terminated

Spec == Init /\ [][Next]_vars

(***************************************************************************)
(* Fairness, as in BackupFish: schedulers run, timed waits end, and a      *)
(* client that has been signalled ends.                                    *)
(***************************************************************************)
Fairness ==
    /\ WF_vars(Supervisor /\ UNCHANGED catalogVars)
    /\ WF_vars(Program)
    /\ \A s \in Signals : WF_vars(Control(s) /\ UNCHANGED catalogVars)
    /\ \A c \in Children :
          WF_vars(signalled[c] # {} /\ ChildExit(c) /\ UNCHANGED catalogVars)

FairSpec == Spec /\ Fairness

-----------------------------------------------------------------------------
(* Properties.                                                             *)

\* No query outlives the Fish program: list_backups waits for every child it
\* started before it removes the directory they write to.
NoChildOutlivesFish ==
    fish \in {"exit", "exited"} => \A c \in Children : ~Running(c)

\* The children whose PIDs a stop request has not been offered are those that
\* the current iteration has started and not yet published; a later
\* publication drops no query that is still running.
EveryRunningChildIsPublished ==
    (publish = "idle" /\ fish \in {"waitDiscovery", "next"}) =>
        \A c \in Children : Running(c) => c \in pid_file

\* A TERM request that reaches WSL ends the operation, also when it arrives
\* between two publications and queries are started after it.
TermEndsOperation == ctl["TERM"] = "done" ~> fish = "exited"

\* "Retrieval failures throw": RetrieveBackupCatalog returns a catalog, that
\* is RunPbsFish returns 0, only when every query that was started succeeded.
RetrievalFailuresThrow ==
    (sup = "finished" /\ result = "zero") =>
        \A c \in Children : proc[c] # "failed"

=============================================================================
