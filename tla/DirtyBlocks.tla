---------------------------- MODULE DirtyBlocks -----------------------------
(* The three contributions to a dirty-block map: clusters whose allocation   *)
(* differs between two snapshots (filesystem_allocation_changes.cpp), the    *)
(* extents of System Volume Information (svi_extents.ixx) and the blocks     *)
(* named by the descriptors of VSS (vss_block_descriptors.ixx,               *)
(* incremental.cpp).                                                         *)
EXTENDS AllocationBitmap, BitmapSet

VolumeSize == ClusterCount * ClusterSize

-----------------------------------------------------------------------------
(* ReadAllocationChangeBlocks                                                *)

\* The runs of ones of a word that begins at a cluster.
\* Adding the lowest one carries through its run; runs end with the volume.
WordRuns(word, word_first_cluster) ==
    LET starts == {b \in word : b - 1 \notin word
                                  /\ word_first_cluster + b < ClusterCount}
        LimitBit(b) == Min({e \in b + 1 .. WordBits : e \notin word})
        Run(b) == [first |-> word_first_cluster + b,
                   limit |-> Min({word_first_cluster + LimitBit(b),
                                  ClusterCount})]
    IN  {Run(b) : b \in starts}

\* The loop over the bytes of both bitmaps.  After a word without a change it
\* goes on at the next byte that differs, which need not begin a word.
\* No bits behind the last cluster are ever set in these bitmaps.
ChangedRuns(previous, current) ==
    LET changed == (previous \ current) \cup (current \ previous)
        Runs[byte_index \in 0 .. BitmapByteCount] ==
            LET begin == byte_index * ByteBits
                next_byte == Min({byte_index + WordBits \div ByteBits,
                                  BitmapByteCount})
                word == LoadBitmapWord(changed, begin)
                mismatches == {k \in next_byte .. BitmapByteCount - 1 :
                                 \E b \in changed : b \div ByteBits = k}
            IN  IF byte_index = BitmapByteCount THEN {}
                ELSE IF word # {}
                     THEN WordRuns(word, begin) \cup Runs[next_byte]
                     ELSE Runs[Min(mismatches \cup {BitmapByteCount})]
    IN  Runs[0]

\* add_cluster_range: a range that overlaps the pending one, or continues it,
\* extends it; otherwise the pending one is inserted.
AddClusterRange(pending, run) ==
    LET first == ((run.first * ClusterSize) \div BlockSize) * BlockSize
        limit == ((run.limit * ClusterSize - 1) \div BlockSize + 1) * BlockSize
    IN  IF first > pending.range_limit
        THEN [range_first |-> first, range_limit |-> limit,
              blocks |-> InsertRange(pending.blocks, pending.range_first,
                                     pending.range_limit)]
        ELSE [pending EXCEPT !.range_limit = limit]

\* The runs are found, and added, in ascending order: Pending[n] is what is
\* pending when those that begin before cluster n have been added.
PendingAfter(runs) ==
    LET Pending[n \in 0 .. ClusterCount] ==
            IF n = 0 THEN [range_first |-> 0, range_limit |-> 0,
                           blocks |-> EmptyBitmapSet]
            ELSE IF \E run \in runs : run.first = n - 1
                 THEN AddClusterRange(Pending[n - 1],
                          CHOOSE run \in runs : run.first = n - 1)
                 ELSE Pending[n - 1]
    IN  Pending

ReadAllocationChangeBlocks(previous, current) ==
    LET pending == PendingAfter(ChangedRuns(previous, current))[ClusterCount]
    IN  InsertRange(pending.blocks, pending.range_first, pending.range_limit)

-----------------------------------------------------------------------------
(* SVI extents and descriptors                                               *)

\* AddRange of SviExtentReader for one extent of clusters and round_up.
AddExtent(set, cluster) ==
    LET start == cluster * ClusterSize
        end == start + ClusterSize
        first_block == start \div BlockSize
        past_last_block == CeilDiv(end, BlockSize)
    IN  InsertRange(set, first_block * BlockSize, past_last_block * BlockSize)

\* ReadBlockOffsets: the extents of all files below System Volume Information
\* are added to the set.  An extent is given as its clusters.
ReadBlockOffsets(clusters, set) ==
    LET Offsets[n \in 0 .. ClusterCount] ==
            IF n = 0 THEN set
            ELSE IF n - 1 \in clusters THEN AddExtent(Offsets[n - 1], n - 1)
                                       ELSE Offsets[n - 1]
    IN  Offsets[ClusterCount]

\* The blocks that are added for a descriptor; offsets outside the volume are
\* passed over.
DescriptorBlocks(descriptor) ==
    LET copied == {descriptor.original_offset, descriptor.store_offset}
        offsets == IF descriptor.forwarder
                   THEN copied \cup {descriptor.relative_offset} ELSE copied
    IN  {offset \div BlockSize : offset \in {o \in offsets : o < VolumeSize}}

\* EnumerateBlockDescriptors over the lists of the stores.
ReadDescriptorBlocks(stores) ==
    InsertBits(EmptyBitmapSet,
               UNION {DescriptorBlocks(descriptor) :
                         descriptor \in UNION {s.store : s \in stores}})

=============================================================================
