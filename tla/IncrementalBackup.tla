------------------------- MODULE IncrementalBackup --------------------------
(* The dirty map of one volume: the volume changes, snapshots of it are      *)
(* taken and deleted, and PrepareDirtyMaps (production_incremental.cpp)      *)
(* tells the backup client which chunks may differ from the previous backup. *)
(* The client takes the others from there without reading them.              *)
(*                                                                           *)
(* The volume and the Volume Shadow Copy Service are external.  Of VSS the   *)
(* model assumes what keeps a snapshot readable: before a cluster that some  *)
(* snapshot has outside System Volume Information is overwritten, its block  *)
(* is copied to the store of the newest snapshot, and the store of a deleted *)
(* snapshot passes to its predecessor.                                       *)
EXTENDS DirtyBlocks, Sequences

CONSTANTS MaxChanges,        \* bound on the changes of the volume
          MaxSnapshots,      \* bound on the snapshots between the two backups
          InitialAllocations \* what may be allocated at the first backup

ASSUME ChunkAssumption ==
    /\ ChunkSize \in Nat \ {0}
    /\ ChunkSize % (BlockSize * kBitsPerWord) = 0
    /\ InitialAllocations \subseteq SUBSET (0 .. ClusterCount - 1)

ASSUME BoundAssumption == MaxChanges \in Nat /\ MaxSnapshots \in Nat

VARIABLES
    stage,      \* "changing", then from the payload snapshot on "payload",
                \* "successor" and "prepared"
    alloc,      \* the allocated clusters of the volume
    svi,        \* those of System Volume Information
    snapshots,  \* the snapshots in the order of their creation
    dirty_map,  \* the chunks of the map, or {NoMap}
    written,    \* history: clusters written between baseline and payload
    past,       \* history: the baseline snapshot, also when it is deleted
    changes     \* the number of changes so far

incrementalVars ==
    <<stage, alloc, svi, snapshots, dirty_map, written, past, changes>>

Clusters == 0 .. ClusterCount - 1
NoMap == -1

\* An entry of the catalog.  in_volume: the store has in-volume data.
Snapshot(id, time, in_volume) ==
    [id |-> id, creation_time |-> time, in_volume |-> in_volume,
     alloc |-> alloc, svi |-> svi, store |-> {}]

TypeOK ==
    /\ stage \in {"changing", "payload", "successor", "prepared"}
    /\ svi \subseteq alloc /\ alloc \subseteq Clusters
    /\ written \subseteq Clusters
    /\ dirty_map \subseteq Nat \cup {NoMap}
    /\ changes \in 0 .. MaxChanges

Init ==
    /\ stage = "changing"
    /\ alloc \in InitialAllocations
    /\ svi \in {{}} \cup {{c} : c \in alloc}
    /\ snapshots = <<Snapshot("baseline", 0, TRUE)>>
    /\ past = snapshots[1]
    /\ dirty_map = {NoMap}
    /\ written = {}
    /\ changes = 0

-----------------------------------------------------------------------------
(* The volume and VSS (external)                                             *)

Change ==
    /\ stage # "prepared" /\ changes < MaxChanges
    /\ changes' = changes + 1
    /\ UNCHANGED <<stage, dirty_map, past>>

\* The descriptor of a block that was copied into System Volume Information.
CopiedBlock(block) ==
    [original_offset |-> block * BlockSize, relative_offset |-> 0,
     store_offset |-> IF svi = {} THEN VolumeSize
                                  ELSE Min(svi) * ClusterSize,
     forwarder |-> FALSE]

\* The blocks that a cluster has bytes in.
BlocksOf(c) == (c * ClusterSize) \div BlockSize ..
                   (c * ClusterSize + ClusterSize - 1) \div BlockSize

\* Before a cluster is written: copy on write to the newest store.
CopyOnWrite(c) ==
    LET newest == Len(snapshots)
        needed == \E k \in 1 .. newest :
                      c \in snapshots[k].alloc \ snapshots[k].svi
        blocks == {b \in BlocksOf(c) :
                      \A d \in snapshots[newest].store :
                          d.original_offset # b * BlockSize}
    IN  IF needed
        THEN [snapshots EXCEPT ![newest].store =
                                   @ \cup {CopiedBlock(b) : b \in blocks}]
        ELSE snapshots

Write(c) ==
    /\ Change
    /\ c \in alloc
    /\ snapshots' = IF snapshots = <<>> THEN snapshots ELSE CopyOnWrite(c)
    /\ written' = IF stage = "changing" THEN written \cup {c} ELSE written
    /\ UNCHANGED <<alloc, svi>>

\* A cluster is given to a file, or to one of System Volume Information.  (What
\* is allocated after the payload is in nothing that the map is built from.)
Allocate(c) ==
    /\ Change /\ stage = "changing"
    /\ c \notin alloc
    /\ alloc' = alloc \cup {c}
    /\ svi' \in {svi, svi \cup {c}}
    /\ UNCHANGED <<snapshots, written>>

Free(c) ==
    /\ Change /\ stage = "changing"
    /\ c \in alloc
    /\ alloc' = alloc \ {c}
    /\ svi' = svi \ {c}
    /\ UNCHANGED <<snapshots, written>>

\* Something else takes a snapshot.  The clock may stand still, and the store
\* may be on another volume.  (Without the baseline there is no map, whatever
\* follows.)
TakeSnapshot ==
    /\ stage = "changing"
    /\ Len(snapshots) \in 1 .. MaxSnapshots
    /\ snapshots[1].id = "baseline"
    /\ \E tick \in {0, 1}, in_volume \in BOOLEAN :
           snapshots' = Append(snapshots,
               Snapshot("other", snapshots[Len(snapshots)].creation_time + tick,
                        in_volume))
    /\ UNCHANGED <<stage, alloc, svi, dirty_map, written, past, changes>>

\* A snapshot between baseline and payload, or the baseline, is deleted.
DeleteSnapshot(k) ==
    /\ stage # "prepared"
    /\ snapshots[k].id \in {"baseline", "other"}
    /\ snapshots' =
           [i \in 1 .. Len(snapshots) - 1 |->
               IF i < k - 1 THEN snapshots[i]
               ELSE IF i = k - 1
               THEN [snapshots[i] EXCEPT !.store = @ \cup
                        {d \in snapshots[k].store :
                            \A e \in @ : e.original_offset # d.original_offset}]
               ELSE snapshots[i + 1]]
    /\ UNCHANGED <<stage, alloc, svi, dirty_map, written, past, changes>>

-----------------------------------------------------------------------------
(* The backup                                                                *)

\* The time of the newest snapshot, or the baseline's.
Now == IF snapshots = <<>> THEN past.creation_time
       ELSE snapshots[Len(snapshots)].creation_time

\* The backup takes its snapshot, the payload.
TakePayload ==
    /\ stage = "changing"
    /\ \E tick \in {0, 1} :
           snapshots' = Append(snapshots,
                               Snapshot("payload", Now + tick, TRUE))
    /\ stage' = "payload"
    /\ UNCHANGED <<alloc, svi, dirty_map, written, past, changes>>

\* The temporary snapshot that makes the metadata readable.
TakeSuccessor ==
    /\ stage = "payload"
    /\ \E tick \in {0, 1} :
           snapshots' = Append(snapshots,
                               Snapshot("successor", Now + tick, TRUE))
    /\ stage' = "successor"
    /\ UNCHANGED <<alloc, svi, dirty_map, written, past, changes>>

\* No manifest, no baseline for this volume, no successor, an input that
\* cannot be read: there is no map and the client reads the whole image.
PrepareFails ==
    /\ stage \in {"payload", "successor"}
    /\ stage' = "prepared"
    /\ UNCHANGED <<alloc, svi, snapshots, dirty_map, written, past, changes>>

Entries == {snapshots[k] : k \in DOMAIN snapshots}
Entry(id) == CHOOSE s \in Entries : s.id = id

\* The entries whose time is in the interval, both ends included.
Interval(baseline, payload) ==
    {s \in Entries : s.creation_time \in
                         baseline.creation_time .. payload.creation_time}

\* ReadBlockDescriptorIntervalCatalog does not throw.  (The entries that are
\* equal as records are different stores too, hence the count.)
IntervalIsUsable ==
    /\ \E s \in Entries : s.id = "baseline"
    /\ LET baseline == Entry("baseline")
           payload == Entry("payload")
           indices == {k \in DOMAIN snapshots :
                          snapshots[k] \in Interval(baseline, payload)}
       IN  /\ baseline.creation_time < payload.creation_time
           /\ \A k, l \in indices : k # l =>
                  snapshots[k].creation_time # snapshots[l].creation_time
           /\ \A k \in indices : snapshots[k].in_volume

\* Mutant: the baseline's own store is left out.
ContributingStoresAfterBaseline ==
    Interval(Entry("baseline"), Entry("payload"))
        \ {Entry("payload"), Entry("baseline")}

\* The stores from the baseline on, without the payload's.
ContributingStores ==
    Interval(Entry("baseline"), Entry("payload")) \ {Entry("payload")}

\* BuildDirtyBlockMap.
DirtyBlockMap ==
    LET baseline == Entry("baseline")
        payload == Entry("payload")
        allocation_blocks ==
            ReadAllocationChangeBlocks(baseline.alloc, payload.alloc)
        svi_blocks ==
            ReadBlockOffsets(payload.svi,
                ReadBlockOffsets(baseline.svi, EmptyBitmapSet))
        descriptor_blocks == ReadDescriptorBlocks(ContributingStores)
    IN  Merge(Merge(descriptor_blocks, allocation_blocks), svi_blocks)

\* TryPrepareAndWriteDirtyMapForSnapshot: an empty set gives no map.  The
\* bitmap has the chunks of the set's storage and is zero behind it.
BuildMap ==
    /\ stage = "successor"
    /\ IntervalIsUsable
    /\ dirty_map' = IF DirtyBlockMap.size = 0 THEN {NoMap}
                    ELSE ReduceBitmap(DirtyBlockMap.bits,
                                      ChunkSize \div BlockSize)
    /\ stage' = "prepared"
    /\ UNCHANGED <<alloc, svi, snapshots, written, past, changes>>

-----------------------------------------------------------------------------

Next ==
    \/ \E c \in Clusters : Write(c) \/ Allocate(c) \/ Free(c)
    \/ TakeSnapshot
    \/ \E k \in DOMAIN snapshots : DeleteSnapshot(k)
    \/ TakePayload
    \/ TakeSuccessor
    \/ PrepareFails
    \/ BuildMap

Spec == Init /\ [][Next]_incrementalVars

-----------------------------------------------------------------------------
(* Properties                                                                *)

\* Whether the image of a cluster may differ between the two backups.  Free
\* clusters are zero in both images.  What System Volume Information has in
\* either snapshot may differ without VSS noticing, or be excluded in one
\* image only.
MayDiffer(c) ==
    LET payload == Entry("payload")
    IN  \/ c \in past.svi \cup payload.svi
        \/ (c \in past.alloc) # (c \in payload.alloc)
        \/ c \in past.alloc \cap payload.alloc /\ c \in written

\* A chunk that the client takes from the previous backup is the same in the
\* image of the payload: every byte of a cluster that may differ is in a chunk
\* of the dirty map, whatever was written, freed and allocated meanwhile and
\* whichever snapshots came and went.
DirtyMapCoversChanges ==
    (stage = "prepared" /\ dirty_map # {NoMap}) =>
        \A c \in Clusters : MayDiffer(c) =>
            \A p \in c * ClusterSize .. c * ClusterSize + ClusterSize - 1 :
                p \div ChunkSize \in dirty_map

=============================================================================
