# DeviceFs in TLA+

TLA+ specifications of the parts of DeviceFs in which several processes,
threads or machines have to agree: cancellation of a backup, the life of its
snapshots and of the DeviceFs process, the Windows service, the operations of
the console program, the view of a backup from WSL to the attached disk, and
the comparison of two file systems; and of the two algorithms that decide what a
backup contains: reading an image and computing what has changed. Every
definition names the code it stands for in `PROJECT.json` (`map`); paths below
are relative to `src/`.

## 1. The system

A backup is made by `backup-supervisor.exe`. The **Windows service**
(`windows_service.ixx`) starts the same executable as *orchestrator* in a job
object; `--foreground` runs the same code in a console. The **native backup**
(`native_backup.ixx`) asks the **Volume Shadow Copy Service** for a snapshot set
(`vshadow.ixx` over `dependencies/vshadow`), starts a **DeviceFs** child
(`filesystem.ixx`) that serves the snapshots as image files through WinFsp, and
has **Fish in WSL** (`artifacts/start-pbs.fish`) mount them and run
`proxmox-backup-client`. Viewing runs in the other direction: Fish maps an image
of the backup server, a Samba helper serves it, and DeviceFs presents it as a
VHDX that Windows attaches. The **filesystem verifier** attaches a synthetic and a
real view of a volume and compares their trees and contents.

| component | state it keeps | operations | talks to |
|---|---|---|---|
| PBS control protocol (`pbs.cpp`, `start-pbs.fish`) | WSL process, its standard input, stop file, PID file | start, write input, poll, TERM, KILL, give up; publish children, test, kill | Fish by files and signals; cancellation event |
| backup program (`run_backup`) | mount, client, exit status | manifest, mount, spawn, publish, wait, unmount | supervisor, PBS client |
| catalogue program (`run_list`) | children, their results, assembled list | discover, start queries, publish, wait, assemble | supervisor, PBS clients |
| snapshot set (`vshadow`) | `completion_`, the set, `m_bSnapshotSetCreated`, the asynchronous call | gather, start, add, prepare, create, operation, complete, delete | VSS service and writers |
| native backup | mount target, DeviceFs child, exit code | prepare, start DeviceFs, wait for it, RunPbsFish, destructors | all of the above |
| Windows service | reported state, cancellation event, job, outcome | start, report, wait, sample, force, report | service control manager, orchestrator |
| DeviceFs | `open_file_count_`, stop and stopped events, members | mount, callbacks, stop, destroy | WinFsp, owner, console |
| foreground operations | registered contexts, two events each | register, run, erase, complete; handler; monitor | console |
| read path (`windows_block_device.ixx`) | allocation bitmap, known-data map | exclude VSS storage, make the map, read | Windows volume, WinFsp |
| incremental backup (`production_incremental.cpp`, `incremental.cpp`) | dirty maps | select stores, read three contributions, unite, reduce | VSS catalogue and descriptors, NTFS |
| view program (`run_view`, `finish_view`) | mapper, its reader, Samba, two FIFOs, exit status | map, read device, serve, tear down | supervisor, Samba, PBS client |
| backup viewer (`backup_viewer.cpp`, `vhdx_attachment.cpp`) | Fish, DeviceFs, disk, volume, `should_stop_pbs` | start, wait for readiness, attach, mount, session, destructors | WSL, DeviceFs, virtual disk service |
| filesystem verifier (`filesystem_verifier_impl.cpp`) | two disks, queue and inventory of each traversal, plan, tasks, mismatches, registered threads | attach, traverse, plan, compare, detach, conclude; interrupt pending I/O | file systems, cancellation event |
| VHDX viewer, installation, terminal | see `PROJECT.json` | | |

What is hard here is rarely inside one function. The stop request and the
publication of a PID meet in two files of a Linux file system without a lock.
The set of snapshots may come into being while its creation is being cancelled.
Destructors run in an order that decides whether a disk image loses its source.
Timeouts give up on processes that then go on. Cancelling a thread's I/O makes
healthy volumes look different. Console and service control
handlers run on threads of their own. `PROJECT.json` lists these places as
`hazards`, each with the properties that watch it.

What makes each component correct:

* control protocol: a stop request reaches the client whatever the
  interleaving; nobody is signalled who was not cancelled; a cancelled
  operation ends;
* backup program: exit status 0 means a complete upload and a clean unmount;
* catalogue program: no child is left unpublished or unwaited for;
* snapshot set: it is kept exactly after a success; writers hear the truth;
* native backup: the source of an upload is this backup's and outlives it; exit code 0 is a usable
  backup, the cancelled exit code is no failure in disguise;
* service: reports are in order, truthful and in time; nothing runs after it;
* DeviceFs: no callback after destruction, files in use are served, failures
  are reported, the process ends;
* foreground operations: no registration is lost, the handler waits for the
  cleanup and returns, nobody leaves a worker behind;
* read path: every read returns the image, in which free clusters and the
  storage of VSS are zero; the known-data map says exactly where it is not zero;
* view: the storage of an attached disk is not stopped under it; a DeviceFs that
  ends takes the WSL side with it; every wait ends after cancellation; exit status
  0 means that the view was served;
* verifier: VERIFIED is true of the volumes, a reported difference is theirs,
  detaching is never interrupted, cancellation ends it;
* incremental backup: no chunk that may differ from the previous backup is
  missing from the dirty map.

## 2. Modules

| module | models | composed of |
|---|---|---|
| `PbsControl` | the protocol of `pbs.cpp` with a Fish program: `RunPbsFish`, `StopPbsFish`, the control program (`touch`, `test`, `cat`, `kill` as separate steps), `publish_children` | base of the three programs |
| `BackupFish` | `run_backup` and `supervise_pbs` | extends `PbsControl`, instantiates `PbsOperation` |
| `CatalogFish` | the listing of backups with parallel queries | extends `PbsControl` |
| `ViewFish` | `run_view`, `read_view_map_output`, `finish_view` | extends `PbsControl` |
| `SelectiveView` | `RunSelectiveView`, `DeviceFsChild`, `AttachedVhdx`, `StopPbsFish` | extends `ViewFish` |
| `PbsOperation` | abstract: what `RunPbsFish` promises its caller | |
| `Vshadow` | class `Backup` and `VssClient` | |
| `BackupRun` | `RunVssOperation`, `RunSnapshotBackup`, `DeviceFsChild` | extends `Vshadow`, instantiates `PbsOperation` |
| `BackupService` | `windows_service.ixx` | |
| `DeviceFsShutdown` | `RunWithDevices` and class `DeviceFs` | |
| `ForegroundOperation` | `foreground_operation.ixx`, `coherent_vector.ixx` | |
| `FilesystemTraversal` | `SynchronousIoCancellation` and `FilesystemTraverser` of two volumes | |
| `FilesystemVerifier` | `VerifyVolume`, `BuildComparisonPlan`, `ComparisonWorker`, `FinishVerification` | extends `FilesystemTraversal` |
| `AllocationBitmap` | operators: the bitmap of clusters and its word-wise searches | |
| `ReadPath` | `OpenDevices` for one snapshot and the callback `Read` | extends `AllocationBitmap` |
| `BitmapSet` | operators: `bitmap_set.ixx` | |
| `DirtyBlocks` | operators: allocation changes, SVI extents, descriptors | extends the two |
| `IncrementalBackup` | a changing volume, its snapshots and `PrepareDirtyMaps` | extends `DirtyBlocks` |
| `*Proofs` | theorems about the module they are named after (`BackupRunProofs`: also `Vshadow`; `SelectiveViewProofs`: also `ViewFish`) | extend it and `TLAPS` |
| `ControlHandlerProofs` | theorems about `ForegroundOperation` and `DeviceFsShutdown` | extends both |
| `VolumeImageProofs` | theorems about `ReadPath` and `IncrementalBackup`, with the lemmas about bitmaps that they share | extends both |
| `MC*` | the instances that TLC checks | |

Conventions: state variables have the names of the code where it has one
(`completion_`, `open_file_count_`, `g_stop_event`); a variable without
counterpart is the program counter of a thread, named for the thread. Two-valued
flags are strings (`"no"`, `"yes"`) so that the provers treat them like all
other control state. Definitions that begin with a comment `Mutant:` are
deliberate errors that no specification uses; `PROJECT.json` says which
definition each one replaces and which property must then fail.

### How state and actions correspond to the code

**PbsControl.** `sup` is where the thread in `RunPbsFish` is, one value per
wait; `ctl` is where the Fish one-liner of `SendPbsFishSignal` is. The stop
file and the PID file are variables; the latter is truncated and written in two
steps, as a redirection does it. `ControlTouch`/`ControlTest`/`ControlCat`/`ControlKill` and
`Publish`/`PublishOpen`/`PublishWrite`/`PublishTest`/`PublishKill` interleave freely. Timeouts
are actions that may happen as soon as their wait has begun.

**BackupFish / CatalogFish** add one action per command of the program whose
failure the program can notice. `exit status` is the value the program ends with,
finalizers included.

**Vshadow.** `vss` is the program counter of `CreateSnapshotSet`, the operation and
the destructor. The VSS service is a second process that finishes, fails or
cancels the asynchronous call whenever it likes. `vss_fault` records that a call to
VSS failed in a way the code does not and cannot repair.

**BackupRun** replaces the arbitrary operation of `Vshadow` by
`RunSnapshotBackup`, and `RunPbsFish` in it by `PbsOperation`. That this is sound is
what `BackupFishRefinesPbsOperation` proves. `kMountTarget` is one path for all
backups and an image is named for its volume, so the DeviceFs of a backup that was
killed in the foreground (no job object) or given up on is indistinguishable to
Fish from this one's. `Init` therefore begins with any leftover: `mount_target` says
what is at the path, `earlier` whether a process of an earlier backup has still to
mount; `EarlierMounts` and `EarlierExits` are its steps, at any time. `source`
records whose images an upload has read. `CallbackResult` is what class `Backup`
makes of an exception of the operation.

**BackupService.** `service` is the thread of `ServiceMain`; `control` is a control that
the manager has accepted and whose handler has not run. `strays` counts the other
processes of the job. `terminated` is `"yes"` after `TerminateJobObject` and
`"closed"` when the destruction of the job ends what is left in it. `QueryJobFails` is a
failing `QueryInformationJobObject`, also within a forced cleanup. Waiting time is
added up in abstract units.

**DeviceFsShutdown.** `client[c]` is a handle and the callback WinFsp runs for it;
`main` the main thread, with the load, the comparison in `atomic::wait` and the
blocking as separate steps; `dispatcher` includes the four statements of
`DispatcherStopped`. `held` is a history variable for one property.

**ForegroundOperation.** `CoherentVector::Update` is two steps, copy and store,
under `writer_mutex_`; a handler signals its snapshot one context at a time.

**ViewFish, SelectiveView.** `fish` is the view program, `reader` the Fish process that
copies the mapper's output to the FIFO, `view` the thread of `RunSelectiveView`. A FIFO is
the condition that both ends are there. `DeviceFsDies`, `ReaderDies`, `DiskReleased` and the
children's exits may come at any time. A detachment that fails leaves the disk
`"stuck"`: Windows reads on until it lets go.

**FilesystemTraversal, FilesystemVerifier.** A volume is a function from paths to what it answers
to each call; the two volumes are inputs, chosen from `Volumes`, and do not change
(they are snapshots). Every blocking call is a step of its own that returns the
volume's answer or, once `CancelPending` has found the thread in that call,
possibly `ERROR_OPERATION_ABORTED`; every test of the event in the code between two
such calls is a conjunct of the step. `active_`, `pending_`, `failure_`, `next_task`, `completed_tasks` are
the code's. Records of mismatches are sets: `BuildComparisonPlan`'s merge of two sorted lists is
stated as what it yields. The order of a batch of entries and of the tasks is that of a sequence
in `InOrder`, of which there is one. `SeekStream` is part of reading. A sample is any non-empty
choice of the tasks. `OneFailure` bounds the workers that throw.

**AllocationBitmap, BitmapSet, DirtyBlocks** are the algorithms. A bitmap or a
word is the set of positions of its ones, so that masks, shifts and carries
become conditions on positions, while the split into words, partial words,
bytes and blocks is kept. Their widths are constants. The loops of the code that
go through a bitmap are recursive functions of the index; loops that visit the
members of a set in ascending order are recursive functions of the cluster.
The vector of a `BitmapSet` grows with zeros, so its length is left out.

**ReadPath.** `bitmap` is `allocation_bitmap.storage` with the bits behind the last
cluster; the extents of VSS are taken out of it one by one. Each outcome of `Read`
is an action. A byte is represented by its position in the source, so an answer
shows where each of its bytes comes from.

**IncrementalBackup.** The volume and VSS are external. Assumed of VSS is what keeps
snapshots readable: before a cluster that any snapshot has outside System Volume
Information is overwritten, its blocks are copied to the newest store; a deleted
snapshot's store passes to its predecessor. Times of creation may be equal but
do not go back. `BuildMap` is `TryPrepareAndWriteDirtyMapForSnapshot`; all
reasons to go without a map are `PrepareFails`. `written` and `past` are history
variables for the property.

## 3. Runs

| run | instance | what it shows |
|---|---|---|
| `backup_fish` | one client | the safety of the backup program and its control; that it implements `PbsOperation`; a cancelled operation ends, and after TERM the client does |
| `catalog_fish` | discovery and two queries | safety with several children and repeated publication; after TERM every child ends |
| `catalog_fish_throw` | discovery and two queries | **violated**: a failed query does not become an exception (finding 1) |
| `backup_run` | with writers; anything an earlier backup may have left at the mount path | a whole backup with its snapshot set, every VSS call failing and cancellation at any time: what is retained, what writers hear, what the exit code says, who outlives whom, whose images are uploaded |
| `selective_view` | one view; WSL can start the TERM request and not the KILL request | storage under an attached disk, exit status of the view, the end of both sides |
| `filesystem_verifier` | 14 pairs of volumes of two to three objects below the root; two and one traversal workers, two comparison workers | the verdict, the mismatches, the detachments and the end |
| `backup_service` | two stray processes, timeouts 4, 1, 2 | the service |
| `devicefs_shutdown` | two handles opened at most twice each | the end of DeviceFs |
| `devicefs_exit_open` | one handle opened once | **violated**: a late open is not waited for (finding 2) |
| `foreground_operation` | two operations, one depending on the other, two handlers | the registry and the handler |
| `read_path` | nine clusters, two to a byte of two bits, four to a word; 13 sectors; chunks of four clusters | reads and known-data map against the definition of the image |
| `incremental_backup` | five clusters in three blocks and two chunks, three changes, one snapshot in between at a time | the dirty map covers all changes |

**Why these bounds are enough.** The backup program has one client by
construction. The catalogue program treats its queries alike: with
discovery and two queries the list of children grows while an earlier one runs,
and one is started, ends or fails while another is published; the theorems hold
for any set of queries. `Vshadow` and `BackupRun` have no bound: the code handles
one set, and what an earlier backup has left is at most one mount and one
process that has still to mount. For the service a second stray process only lengthens the job; the
timeouts differ so that no sum of two equals another, and the theorem holds for
all timeouts. Two handles with two opens each let the count reach zero, rise and
reach zero again while the destructor is between its load and its wait, which is
all `atomic::wait` can get wrong. Two writers are enough to lose an update, and
one dependency to tell signal-all-then-wait from one-by-one. In `read_path` the
widths are scaled down so that nine clusters have a first, a complete and a
partial last word, a last byte with a bit that stands for no cluster, a partial
chunk and bytes behind the last cluster; all bitmaps, offsets and lengths are
tried. In `incremental_backup` three changes are what it takes to free a cluster,
give it to another file and write it, with snapshots taken and deleted anywhere
in between; two clusters share a block and two blocks a chunk, so each rounding
can go wrong. What is allocated after the payload snapshot reaches nothing that
the map is built from and is left out. In `selective_view` the KILL request fails to
start, the harder case for the supervisor, which must end without it; with a KILL that
starts the invariants hold too (1.9 million states). In `filesystem_verifier` each pair
of volumes differs in one way: a missing object, a kind, a length, contents, an
additional stream, an error of each call on one side, equal errors that hide a
difference, an excluded difference, a hard link on one or both sides. Two workers on
one queue are what it takes to wait for a task of the other, two comparison
workers to split the chunks of one stream; three objects let a directory be
listed while another entry is taken from the queue.

Type invariants are proved for all modules with a `Proofs` module.

**Findings.** (1) `native_backup.ixx` documents that failures to retrieve the
catalogue throw; `start-pbs.fish` assembles it from the queries that succeeded and
exits with 0. (2) `devicefs_process.cpp` says that DeviceFs waits for open files
to close before exiting; a file opened between the last load of
`open_file_count_` and the stop of the dispatcher is not waited for.
`HeldFilesAreServed` shows that the case the comment is about, a VHDX that stays
attached, is safe.

## 4. Fairness

Weak fairness of a thread's own steps stands for the scheduler; of a timeout for
the clock. Nothing is assumed of what the code does not control: a PBS client
need not exit before it is killed, an orchestrator need not react, VSS need not
succeed, a process need not die of termination. The exceptions, each commented
at its `FairSpec`: VSS answers asynchronous calls; WSL starts the control program
or fails to; a client dies of a signal that reached it; programs close the files
they have opened (strong fairness, as they may read in between); a mutex is
handed to who waits for it; a foreground operation ends once it is cancelled.
In `SelectiveView` a reader ends once the mapper's output does. In `FilesystemVerifier` no call
to a file system returns by itself; one that `CancelSynchronousIo` has interrupted does,
and so do `DetachVirtualDisk` and the loop of `FinishVerification`.
`BackupRun` assumes of `RunPbsFish` only what `CancellationEndsRunPbsFish` shows of
the detailed model.

## 5. What is proved

TLAPS checks all proofs without assumptions other than those on the constants
(`UseWriters` is a Boolean; timeouts and bounds are naturals; the catalogue's
queries are any set without the discovery; the handles on DeviceFs are finitely
many; `Nobody` is no operation; the mapper and Samba are two processes; sizes in the
geometry of a volume are positive, its device holds its clusters, a chunk is a
whole number of bytes of the allocation bitmap and of words of the block bitmap:
in the code it has 4 MiB, a block 16 KiB and a word of blocks 64 bits; of the volumes
that are verified: each is a finite tree of objects with a root, in which what has
children is a directory; a path comes after its directory's, as relative paths do
that are compared by characters, and is excluded with it; a file gives the same answers by all its names;
it has finitely many streams of finitely many chunks; the workers are finitely
many and a traversal has at least one).

*Method.* Each module has an inductive invariant `IInv`, a conjunction of named
parts, proved part by part over the actions of `Next`; `IInvInvariant` joins them,
and each theorem is `IInv => property` with one temporal step.

* `BackupFishProofs`, `CatalogFishProofs`. `StopRequestReachesChildren` is not inductive: that
  one of the two sees the other depends on where both programs are.
  `RendezvousInv` states it for all pairs of program counters: once the stop file
  exists, a published child is signalled, or its publisher has still to test, or
  the control program has still to read. `ProgramInv`/`ChildrenInv` tie the program
  counter to which children exist, `PublicationInv` the PID file to the list of
  children, `CancelInv` the signals to the event, `MountInv` and `OutcomeInv` the mount
  and exit status to the upload. `BackupFishRefinesPbsOperation` shows by cases
  that each step maps to a step of `PbsOperation` or a stutter.
* `BackupRunProofs`, first for `Vshadow` alone, then for the backup. `SetInv` relates
  what the service has to what the client knows; `PendingInv` says that without a
  fault nobody leaves the wait while the service is at work, which makes
  `RetainedOnlyOnSuccess` inductive through `DestroyedInv`. Of the backup,
  `OperationInv` ties `RunSnapshotBackup` to the state of class `Backup`, `DeviceFsInv` and
  `UploadInv` say at which of its steps DeviceFs and `RunPbsFish` can be in which
  state. `UploadReadsOwnImages` is part of `UploadInv` and rests on `DeviceFsInv`: from
  `ClearMountTarget` to the end of this backup's DeviceFs the path never shows
  the images that were there before. `ReturnInv` says what its result stands for. `SetStepEffect` is the frame: the
  steps of class `Backup` start where `RunSnapshotBackup` does not run, and change
  nothing of a result or of a retained set. `ExitCodeIsTruthful` needs all four: 0
  comes from the upload, passes through the result and the completion, and the
  set is not deleted on the way. `BackupRunRefinesPbsOperation` shows that the
  backup uses the upload as `PbsOperation` allows; with
  `BackupFishRefinesPbsOperation` both sides of that interface are proved.
* `ControlHandlerProofs`, the life cycle of DeviceFs, for any finite set of handles. `CountInv`: `open_file_count_`
  is the cardinality of the set of open files until `DispatcherStopped` gives up on
  them, so `fetch_sub` never wraps. `PhaseInv` relates the main thread to the
  dispatcher; with `HeldInv`, which uses the exact count, a dispatcher is told to
  stop only when no held file is left. `NoWakeupLost` is the safety half of
  `StopEndsProcess`: a main thread that is blocked on a count of zero is about to
  be notified.
* `VolumeImageProofs`, the read path, for every geometry and word size. `FindClusterIs` and
  `HasAllocatedClustersIs` show that the searches by words (partial word, whole
  words, partial word) find what a search by clusters finds; `ClearedFromIs` that
  the loop which clears ranges leaves exactly the bits outside them. The loop is a
  recursive function, that is, a CHOOSE among the functions that satisfy its
  equation: the proof exhibits one and shows that two of them agree, by the
  least counterexample (`WFMin` on the naturals). `KnownDataMapByChunkIs` and
  `KnownDataMapUsingSimdIs` show that both ways to compute the map agree, and
  `RatioIs`, `CeilDivIs` and `MapCoversChunks` the arithmetic that rounds outward.
  `ReadIInv` adds to both properties `FreeInv`: a cluster counts as free exactly
  when its bit is clear, so `Read` may answer with zeros.
* `VolumeImageProofs`, the incremental backup, for every geometry and history of the
  volume. `LoopExists` shows once for all loops that their equation has a solution.
  `InsertRangeIs` shows that the masks of the first and last word add exactly the
  blocks of a range; `WordRunsAre` and `ChangedRunsAre` that the runs found by words,
  which end at a word's end and go on in the next one, have every changed cluster;
  `PendingStepIs` that coalescing the ranges loses no block, because the runs come in
  ascending order; `SviBlocksAreCovered`, `DescriptorBlocksAreCovered` and
  `ReducedMapCovers` the same for the other two sources and for chunks.
  `DirtyMapCoversChanges` is not inductive: that a written cluster is in a store must
  hold long before there is a map. `WrittenInv` says so of every cluster the baseline
  has outside System Volume Information, as long as the baseline exists, and is kept
  by deletions because the store passes to an entry that is still earlier than the
  payload; for that `IdentityInv` keeps the baseline first and the payload behind all
  earlier entries. `OrderInv`, the order of the times of creation, puts the stores
  that are written to in the interval that is read; `NoMapInv` says that there is no
  map before `BuildMap`.
* `ControlHandlerProofs`, foreground operations, for any operations and handlers. `MutexInv`: the mutex is
  held by exactly the worker that is in `Update`, whose copy is still current;
  hence `RegistryInv`, the exact contents of the vector also in the middle of an
  update, and `NoUpdateLost`. `HandlerInv` carries what a handler has signaled and
  waited for.
* `SelectiveViewProofs`, whichever requests WSL can start. `StorageInv` makes
  `should_stop_pbs` the permission to stop WSL, given only when DeviceFs is gone or
  never started. `ServedInv` follows the exit status through `finish_view` as long as
  nobody asks for the end; `ReapedInv` says where a reaped mapper can be seen.
* `BackupServiceProofs`. `TimeInv` bounds the waiting at each program point and needs
  `JobInv` (a forced cleanup leaves an empty job, so no second one can follow).
  `SuccessIsEarned` needs `JobInv` too: whoever gets to the report without an
  exception has an empty job, and `OutcomeInv` adds that nothing was terminated.
* `FilesystemVerifierProofs`, for all volumes, workers and moments of cancellation.
  `RegistrationInv`: the thread of `VerifyVolume` is registered only while it attaches
  a disk; `InterruptionInv`: only registered threads are interrupted, and only
  after the event. A detachment is therefore never interrupted. `OwnInv` adds that
  the issues of the inventories and the reported failures are the volume's own
  answers: a call may come back interrupted, but then the event is set and its
  result is dropped.
* `FilesystemVerifierProofs`, the inventories. `TraversalInv` says of a traversal that runs, without an
  exception and before the event, that nothing is lost between the queue, the workers
  and the inventory (`CoverInv`): the root and every entry of a committed directory is
  committed, queued, taken or still to be listed by a worker, unless the directory
  is known to be incomplete. The workers stop when the queue is empty and
  `active_` is 0; `CountInv` makes `active_` the number of workers that have a task, and
  `DoneInv` says that then there is nothing left, so whoever is done stays right to be.
  `IssuesComplete` has every failure of a committed object on record. When
  `Run` returns an inventory the invariant is `Inventory`, from which
  `InventoryIsComplete` follows for the whole tree: of the paths that are overlooked
  take the least; its directory is smaller and not overlooked, and was listed.
  `ExcludedBelow` does the same for exclusions.
* `FilesystemVerifierProofs`, the comparison. `ComparisonInv` counts: the completed tasks are as many as the
  members of a set of taken tasks that are reported and that no worker is still
  comparing (`CompletedInv`), no two workers have the same task, and a worker that has
  a stream open knows what opening it gave (`StreamKept`, on which the answer without a
  call for a stream that could not be opened rests). When `completed_tasks` is
  the number of tasks that set is all of them, so `CompleteInv`: everything is
  reported. `PlanInv` keeps the plan that of the two inventories, with its records.
  `MismatchesAreReal` needs the inventories (an object is not reported as
  missing for want of a directory that could not be listed) and, in every step of
  a worker, that the event comes before an interruption.
  `VerifiedVolumesAreEqual` puts all of it together at one path: it is in both
  inventories, `FailuresAreExact` compares the calls that made them, and its chunks
  were compared under its own name or the least name of the same pair of files
  (`ComparedName`).

*Only model-checked:* the liveness properties (the prover has no rule for
fairness). Every invariant that a passing run checks is also a theorem.

## 6. Not modelled

The reasons are in `PROJECT.json` (`components`). In short: parsing and
formatting, vectorised kernels and vendored code are left out for good. Of the
105 thousand lines in `.cpp` and `.h` files 88 thousand are the vendored `simdutf`, and
much of the rest is a vendored terminal and tests, so the share of all lines
that is modelled stays small whatever is modelled of DeviceFs itself; its own
code, most of which is in `.ixx` modules, is covered file by file as the map shows.

Known limits of what is modelled:

* the verifier compares the contents of a file with several names under its
  first name. If that name lies in System Volume Information, a difference counts
  as an exclusion for the other names too; `VerifiedMeansEqual` excepts these files
  (`ComparedAsExcluded`);
* one volume is verified at a time: several jobs share only the lock around
  attachments and the registry of threads;
* `run_backup` globs the images of the mounted directory; a DeviceFs that died
  between mount and glob would leave it empty. The content of the directory is
  not in `BackupFish`;
* an earlier backup's DeviceFs that has not mounted when `ClearMountTarget` looks
  can mount before this backup's does. `WaitForDeviceFs` asks whether an image can be
  opened, not who serves it, so its images would be uploaded;
  `UploadReadsOwnImages` excepts this case (`"late"`), which takes a DeviceFs that hangs in
  its start for longer than the next backup needs for its snapshots;
* the leftovers of an earlier backup are modelled on the Windows side. A
  Fish program abandoned in its unmount may meet the next backup's mount in WSL;
* some calls are assumed to return, which only liveness properties use: the
  write of the input to WSL and the wait for its reader (`StartWslFish`, `FinishWsl`),
  `sudo mount`, and the destruction of the console in the service
  (`windows_service.ixx:264`);
* `MaxOpens` bounds the opens of a file, so `StopEndsProcess` does not
  speak of a destructor that is starved by an endless stream of new opens; the
  theorems about DeviceFs do not use the bound;
* the allocation bitmaps that `ChangedRuns` compares are sets of clusters: bits behind
  the last cluster (`filesystem_allocation_changes.cpp:205`) are masked by the
  clipping of a run but never set in the model;
* in the verifier a worker of a traversal throws only where it starts or
  lists, and at most one does (`OneFailure`); the other places end the same way. A
  comparison whose workers cannot all be started has failed before the first
  of them takes a task, where the code may have compared some; either way the
  verification ends with that failure. The task that estimates the layout, a third
  registered thread that is cancelled and waited for like the others and has no part
  in the verdict, is left out;
* a PID that was read from the PID file and reused by Linux before the kill.

## 7. Plan

1. *done:* control protocol, backup, catalogue and view programs, `PbsOperation`,
   snapshot set, native backup, backup viewer, service, DeviceFs life cycle,
   foreground operations, read path, incremental backup, filesystem verifier;
   theorems about the programs of Fish, the snapshot set and the backup around
   it, the service, the view, the life cycle and the read path of DeviceFs,
   foreground operations, the dirty map and the verifier: every invariant of the
   passing runs.
2. `VhdxLayout` for `vhdx_viewer.ixx`; `BlockDescriptors` for the catalogue and the
   lists of `vss_block_descriptors.ixx`, with forwarders and overlays.
3. The Samba helper and RPC device, `MaterializeOci`, logging console, output menu
   and its tasks; in WSL, the mount that an earlier Fish has left.
