-------------------------- MODULE AllocationBitmap --------------------------
(* AllocationBitmap of windows_block_device.ixx: a volume's bitmap of        *)
(* allocated clusters, and the word-wise searches in it.                     *)
(*                                                                           *)
(* A bitmap, a word or a mask is the set of the positions of its ones.  The  *)
(* bitmap has whole bytes, so the last one may hold ones that stand for no   *)
(* cluster.                                                                  *)
EXTENDS Integers, FiniteSets, FiniteSetsExt

CONSTANTS ByteBits,      \* kBitsPerByte
          WordBits,      \* bits of a UINT64
          ClusterSize,   \* bytes, cluster_size
          ClusterCount,  \* cluster_count
          ChunkSize      \* bytes of a chunk, kPbsImageChunkSize

ASSUME WidthAssumption ==
    /\ ByteBits \in Nat \ {0}
    /\ WordBits \in Nat \ {0}
    /\ WordBits % ByteBits = 0

ASSUME ClusterAssumption ==
    /\ ClusterSize \in Nat \ {0}
    /\ ClusterCount \in Nat \ {0}

CeilDiv(a, b) == a \div b + (IF a % b = 0 THEN 0 ELSE 1)

BitmapByteCount == CeilDiv(ClusterCount, ByteBits)

\* The bits of the storage behind the header.
StorageBits == 0 .. BitmapByteCount * ByteBits - 1

WordMask == 0 .. WordBits - 1

\* Eight bytes of the bitmap from bit begin on; the bytes that are missing at
\* its end are zero.
LoadBitmapWord(bits, begin) == {b \in WordMask : begin + b \in bits}

\* The bytes of [first, limit) are cleared: the first under first_mask, the
\* last under last_mask, one byte that is both under both, the others whole.
MarkClustersFree(bits, first, limit) ==
    LET last == limit - 1
        first_byte == first \div ByteBits
        last_byte == last \div ByteBits
        Cleared(b) ==
            /\ b \div ByteBits \in first_byte .. last_byte
            /\ b \div ByteBits = first_byte =>
                   b % ByteBits >= first % ByteBits
            /\ b \div ByteBits = last_byte =>
                   b % ByteBits <= last % ByteBits
    IN  {b \in bits : ~Cleared(b)}

\* A word of the bitmap ^ nonmatching_word: ones where a cluster is allocated,
\* or free.
MatchingBits(allocated, bits, begin) ==
    IF allocated THEN LoadBitmapWord(bits, begin)
                 ELSE WordMask \ LoadBitmapWord(bits, begin)

\* The first cluster of [first, limit) that is allocated, or free, or limit
\* if there is none.  The first word is masked below, and above if the range
\* ends in it; the complete words are compared as they are; what follows them
\* is masked above.
FindCluster(allocated, bits, first, limit) ==
    LET Matching(begin) == MatchingBits(allocated, bits, begin)
        first_bit == first % WordBits
        first_word == first - first_bit
        first_matching == {b \in Matching(first_word) : b >= first_bit}
        in_range == {b \in first_matching : b < limit - first_word}
        word_limit == limit - (limit % WordBits)
        words == {w \in first_word + WordBits .. word_limit - 1 :
                     w % WordBits = 0 /\ Matching(w) # {}}
        final_matching == {b \in Matching(word_limit) : b < limit - word_limit}
        FoundIn(begin, matching) ==
            IF matching = {} THEN limit ELSE begin + Min(matching)
    IN  IF limit - first <= WordBits - first_bit
        THEN FoundIn(first_word, in_range)
        ELSE IF first_matching # {} THEN FoundIn(first_word, first_matching)
        ELSE IF words # {} THEN FoundIn(Min(words), Matching(Min(words)))
        ELSE FoundIn(word_limit, final_matching)

\* ReduceBitmap: one bit for every ratio bits; a partial group at the end has a
\* bit too, and every bit of the storage counts.
ReduceBitmap(bits, ratio) == {b \div ratio : b \in bits}

\* Whether a byte of [offset, offset + length) is in an allocated cluster, or
\* beyond the clusters that the bitmap knows.
HasAllocatedClusters(bits, offset, length) ==
    LET first_cluster == offset \div ClusterSize
        last_cluster == (offset + (length - 1)) \div ClusterSize
    IN  \/ last_cluster >= ClusterCount
        \/ FindCluster(TRUE, bits, first_cluster, last_cluster + 1)
               # last_cluster + 1

\* The loop over the runs of free clusters from a cluster on: the bytes of
\* [offset, end) that it clears.
ClearedFrom(bits, offset, end, limit) ==
    LET Cleared[cluster \in 0 .. ClusterCount] ==
            IF cluster >= limit THEN {}
            ELSE LET free_cluster == FindCluster(FALSE, bits, cluster, limit)
                     next == FindCluster(TRUE, bits, free_cluster, limit)
                     free_begin == Max({offset, free_cluster * ClusterSize})
                     free_end == Min({end, next * ClusterSize})
                 IN  IF free_cluster = limit THEN {}
                     ELSE (free_begin .. free_end - 1) \cup Cleared[next]
    IN  Cleared

\* The bytes of the free clusters in the requested range are cleared, those
\* beyond the volume's clusters keep the source's.
SynthesizeFreeClusters(bits, output, offset) ==
    LET end == offset + Cardinality(DOMAIN output)
        limit == Min({ClusterCount, (end - 1) \div ClusterSize + 1})
        first_cluster == offset \div ClusterSize
        cleared == IF first_cluster < limit
                   THEN ClearedFrom(bits, offset, end, limit)[first_cluster]
                   ELSE {}
    IN  [i \in DOMAIN output |-> IF offset + i \in cleared THEN 0
                                                           ELSE output[i]]

=============================================================================
