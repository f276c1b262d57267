------------------------ MODULE FilesystemTraversal -------------------------
(***************************************************************************)
(* The filesystem verifier compares the volume of a synthetic backup with  *)
(* the real one.  This module is its first half: FilesystemTraverser makes *)
(* an inventory of each volume with a pool of workers that share a queue   *)
(* of directory entries, while the cancellation of a blocked worker's I/O  *)
(* may come at any time.                                                   *)
(*                                                                         *)
(* A path is a number; numbers are in the order of the relative paths, and *)
(* 0 is the root.  An object is a record of what its volume answers:       *)
(* kind, identity, streams (a function from names to sequences of chunks)  *)
(* and the errors of opening it, querying its streams, listing it and      *)
(* reading it, each of which is "none" for a success.                      *)
(***************************************************************************)
EXTENDS Naturals, Sequences, FiniteSets, SequencesExt

CONSTANTS
    Parent,         \* the directory of each path but the root
    VssExcluded,    \* IsVssExcludedPath
    Volumes,        \* pairs of volumes that may be compared
    Workers         \* kVerificationWorkerCount threads of each endpoint

Endpoints == {"synthetic", "real"}
Root == 0

\* A directory comes before what is in it, and is excluded with all of that.
ASSUME PathAssumption ==
    /\ DOMAIN Parent \subseteq Nat \ {Root}
    /\ \A p \in DOMAIN Parent :
          /\ Parent[p] \in DOMAIN Parent \cup {Root}
          /\ Parent[p] < p
          /\ Parent[p] \in VssExcluded => p \in VssExcluded

\* A volume is a finite tree of objects, and a file gives the same answers by
\* whatever name it is opened.
ASSUME TraversalAssumption ==
    \A volume \in Volumes, e \in Endpoints :
        /\ IsFiniteSet(DOMAIN volume[e])
        /\ Root \in DOMAIN volume[e]
        /\ DOMAIN volume[e] \subseteq DOMAIN Parent \cup {Root}
        /\ \A p, q \in DOMAIN volume[e] :
              /\ p # Root => /\ Parent[p] \in DOMAIN volume[e]
                            /\ volume[e][Parent[p]].kind = "Directory"
              /\ volume[e][p].identity # 0
                    /\ volume[e][p].identity = volume[e][q].identity =>
                       volume[e][p] = volume[e][q]

ASSUME WorkersAssumption ==
    \A e \in Endpoints : IsFiniteSet(Workers[e]) /\ Workers[e] # {}

VARIABLES
    fs,                 \* the two volumes, which do not change
    cancellation_event, \* BOOLEAN
    pending_,           \* the queue of each FilesystemTraverser
    active_,            \* its tasks that were taken and not completed
    failure_,           \* whether a worker threw
    inventory,          \* objects, issues and incomplete_directories
    run,                \* FilesystemTraverser::Run of each endpoint
    worker,             \* each worker's step, task and the entries to come
    registered,         \* SynchronousIoCancellation's threads_
    aborted             \* threads whose I/O CancelSynchronousIo has ended

traverserVars == <<pending_, active_, failure_, inventory, run, worker>>
ioVars == <<registered, aborted>>
traversalVars == <<fs, cancellation_event, traverserVars, ioVars>>

TraversalInit ==
    /\ fs \in Volumes
    /\ cancellation_event = FALSE
    /\ pending_ = [e \in Endpoints |-> <<>>]
    /\ active_ = [e \in Endpoints |-> 0]
    /\ failure_ = [e \in Endpoints |-> FALSE]
    /\ inventory = [e \in Endpoints |->
                      [objects |-> {}, issues |-> {},
                       incomplete_directories |-> {}]]
    /\ run = [e \in Endpoints |-> "idle"]
    /\ worker = [e \in Endpoints |->
                   [w \in Workers[e] |->
                      [pc |-> "unborn", path |-> Root, entries |-> {}]]]
    /\ registered = {}
    /\ aborted = {}

-----------------------------------------------------------------------------
(* SynchronousIoCancellation.                                              *)

InIo == {"open", "streams", "list"}

\* What a blocking call of thread t returns, its own result being result: once
\* CancelSynchronousIo has found the call pending, either it or the abortion.
IoResults(t, result) ==
    IF t \in aborted THEN {result, "ERROR_OPERATION_ABORTED"} ELSE {result}

Unregister(t) ==
    /\ registered' = registered \ {t}
    /\ aborted' = aborted \ {t}

-----------------------------------------------------------------------------
(* FilesystemTraverser.                                                    *)

\* Run: the root is queued and the workers are started.
Queue(e, tasks) ==
    IF cancellation_event \/ failure_[e] THEN UNCHANGED pending_
    ELSE pending_' = [pending_ EXCEPT ![e] = @ \o tasks]

Run(e) ==
    /\ run[e] = "idle"
    /\ run' = [run EXCEPT ![e] = "running"]
    /\ worker' = [worker EXCEPT ![e] =
                    [w \in Workers[e] |-> [@[w] EXCEPT !.pc = "start"]]]
    /\ Queue(e, <<Root>>)
    /\ UNCHANGED <<fs, cancellation_event, active_, failure_, inventory, ioVars>>

Goto(e, w, pc) == worker' = [worker EXCEPT ![e][w].pc = pc]

\* Bound: one worker of the two traversals fails.
OneFailure == \A e \in Endpoints : ~failure_[e]

\* The worker cannot be started or registered, or runs out of memory over the
\* entries of a directory; the task it has is not completed.
WorkerThrows(e, w) ==
    /\ OneFailure
    /\ worker[e][w].pc \in {"start", "list"}
    /\ Goto(e, w, "done")
    /\ failure_' = [failure_ EXCEPT ![e] = TRUE]
    /\ Unregister(<<e, w>>)
    /\ UNCHANGED <<fs, cancellation_event, pending_, active_, inventory, run>>

WorkerReturns(e, w) ==
    /\ Goto(e, w, "done")
    /\ Unregister(<<e, w>>)
    /\ UNCHANGED <<fs, cancellation_event, pending_, active_, failure_,
                   inventory, run>>

\* The worker registers its thread before its first task.  One that finds the
\* queue empty waits while a task is active.
Take(e, w) ==
    /\ worker[e][w].pc \in {"start", "take"}
    /\ IF cancellation_event \/ failure_[e]
       THEN WorkerReturns(e, w)
       ELSE \/ /\ pending_[e] = <<>>
               /\ active_[e] = 0
               /\ WorkerReturns(e, w)
            \/ /\ pending_[e] # <<>>
               /\ worker' = [worker EXCEPT ![e][w] =
                               [pc |-> "open", path |-> Head(pending_[e]),
                                entries |-> {}]]
               /\ pending_' = [pending_ EXCEPT ![e] = Tail(@)]
               /\ active_' = [active_ EXCEPT ![e] = @ + 1]
               /\ registered' = registered \cup {<<e, w>>}
               /\ UNCHANGED <<fs, cancellation_event, failure_, inventory, run,
                              aborted>>

\* Process returns and Complete follows.
Complete(e, w) ==
    /\ Goto(e, w, "take")
    /\ active_' = [active_ EXCEPT ![e] = @ - 1]

IsDirectory(e, p) == fs[e][p].kind = "Directory"

Issue(p, operation, error) ==
    [path |-> p, operation |-> operation, failure |-> error]

\* streams_complete of a committed object.
StreamsComplete(e, p) ==
    \A i \in inventory[e].issues :
        i.path = p => i.operation \notin {"OpenObject", "QueryStreams"}

\* CachedStreams: another name of the file has been committed.
Cached(e, p) ==
    /\ fs[e][p].identity # 0
    /\ ~IsDirectory(e, p)
    /\ \E q \in inventory[e].objects :
          /\ fs[e][q].identity = fs[e][p].identity
          /\ StreamsComplete(e, q)

\* Process commits the object, with the issues of the operation that failed.
Commit(e, p, issues, incomplete) ==
    inventory' = [inventory EXCEPT
                    ![e].objects = @ \cup {p},
                    ![e].issues = @ \cup issues,
                    ![e].incomplete_directories = @ \cup incomplete]

\* TryOpenFilesystemObject returns.
OpenReturns(e, w) ==
    LET p == worker[e][w].path IN
    /\ worker[e][w].pc = "open"
    /\ \E error \in IoResults(<<e, w>>, fs[e][p].open) :
          IF cancellation_event THEN WorkerReturns(e, w)
          ELSE /\ \/ /\ error # "none"
                     /\ Commit(e, p, {Issue(p, "OpenObject", error)},
                               IF IsDirectory(e, p) THEN {p} ELSE {})
                     /\ Complete(e, w)
                  \/ /\ error = "none"
                     /\ Cached(e, p)
                     /\ Commit(e, p, {}, {})
                     /\ Complete(e, w)
                  \/ /\ error = "none"
                     /\ ~Cached(e, p)
                     /\ Goto(e, w, "streams")
                     /\ UNCHANGED <<inventory, active_>>
               /\ UNCHANGED <<fs, cancellation_event, pending_, failure_, run,
                              ioVars>>

\* QueryObjectStreams returns; EnumerateDirectory follows for a directory.
StreamsReturn(e, w) ==
    LET p == worker[e][w].path IN
    /\ worker[e][w].pc = "streams"
    /\ \E error \in IoResults(<<e, w>>, fs[e][p].query) :
          IF cancellation_event THEN WorkerReturns(e, w)
          ELSE /\ Commit(e, p, IF error = "none" THEN {}
                               ELSE {Issue(p, "QueryStreams", error)}, {})
               /\ \/ /\ ~IsDirectory(e, p)
                     /\ Complete(e, w)
                  \/ /\ IsDirectory(e, p)
                     /\ worker' = [worker EXCEPT ![e][w] =
                          [pc |-> "list", path |-> p,
                           entries |-> {q \in DOMAIN fs[e] \ {Root} :
                                           Parent[q] = p}]]
                     /\ UNCHANGED active_
               /\ UNCHANGED <<fs, cancellation_event, pending_, failure_, run,
                              ioVars>>

\* A batch of entries is the next part of the directory, in its order.
Batches(entries) ==
    {batch \in (SUBSET entries) \ {{}} :
        \A p \in batch, q \in entries \ batch : p < q}

\* The members of S as a sequence in the order Before.
InOrder(S, Before(_, _)) ==
    {s \in [1 .. Cardinality(S) -> S] :
        /\ \A x \in S : \E i \in DOMAIN s : s[i] = x
        /\ \A i, j \in DOMAIN s : i < j => Before(s[i], s[j])}

\* EnumerateDirectory: a call returns a batch, which is queued, or no entries,
\* or the error of a directory that cannot be listed to its end.
ListReturns(e, w) ==
    LET p == worker[e][w].path
        entries == worker[e][w].entries
    IN
    /\ worker[e][w].pc = "list"
    /\ IF cancellation_event THEN WorkerReturns(e, w)
       ELSE /\ \/ \E batch \in Batches(entries) :
                     /\ \E tasks \in InOrder(batch, <) : Queue(e, tasks)
                     /\ worker' = [worker EXCEPT ![e][w].entries = @ \ batch]
                     /\ UNCHANGED <<inventory, active_>>
               \/ /\ entries = {}
                  /\ fs[e][p].list = "none"
                  /\ Complete(e, w)
                  /\ UNCHANGED <<pending_, inventory>>
               \/ \E error \in IoResults(<<e, w>>, fs[e][p].list) \ {"none"} :
                     /\ Commit(e, p, {Issue(p, "QueryDirectory", error)}, {p})
                     /\ Complete(e, w)
                     /\ UNCHANGED pending_
            /\ UNCHANGED <<fs, cancellation_event, failure_, run, ioVars>>

RunReturns(e) ==
    /\ run[e] = "running"
    /\ \A w \in Workers[e] : worker[e][w].pc = "done"
    /\ run' = [run EXCEPT ![e] = IF failure_[e] THEN "threw"
                                 ELSE IF cancellation_event THEN "nullopt"
                                 ELSE "inventory"]
    /\ UNCHANGED <<fs, cancellation_event, pending_, active_, failure_,
                   inventory, worker, ioVars>>

\* The steps that no file system can delay.
TraverserStep(e) ==
    \/ \E w \in Workers[e] : Take(e, w)
    \/ RunReturns(e)

TraverserIo(e, w) == OpenReturns(e, w) \/ StreamsReturn(e, w) \/ ListReturns(e, w)

\* IsBelowIncompleteDirectory
Ancestors[p \in DOMAIN Parent \cup {Root}] ==
    IF p = Root THEN {} ELSE {Parent[p]} \cup Ancestors[Parent[p]]

IsBelowIncompleteDirectory(e, p) ==
    \E d \in inventory[e].incomplete_directories : d \in Ancestors[p]

=============================================================================
