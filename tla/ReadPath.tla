------------------------------ MODULE ReadPath ------------------------------
(* How DeviceFs serves one snapshot with --synthetic-free-clusters:          *)
(* OpenDevices takes the storage of VSS out of the allocation bitmap and     *)
(* derives the known-data map from it, then the callback Read answers        *)
(* requests with WindowsBlockDevice::Read.                                   *)
(*                                                                           *)
(* The source's byte at p is represented by p + 1, so that every byte of an  *)
(* answer tells where it comes from; a byte that is made up is 0.            *)
EXTENDS AllocationBitmap

CONSTANTS Length,         \* bytes of the device, length
          SectorSize,     \* sector_size
          UlongMax        \* the largest ULONG

ASSUME DeviceAssumption ==
    /\ SectorSize \in Nat \ {0}
    /\ Length \in Nat
    /\ Length % SectorSize = 0
    /\ ClusterCount * ClusterSize <= Length
    /\ ChunkSize \in Nat \ {0}
    /\ ChunkSize % (ClusterSize * ByteBits) = 0
    /\ UlongMax \in Nat \ {0}

VARIABLES
    phase,           \* where OpenDevices is, or "serving"
    bitmap,          \* allocation_bitmap.storage
    known_data_map,  \* the contents of the file *.known-data.bitmap
    request,         \* the request that WinFsp makes, if any
    reply,           \* its answer, if there is one
    free             \* history: the clusters that the volume's bitmap calls
                     \* free or that VSS keeps its own data in

readVars == <<phase, bitmap, known_data_map, request, reply, free>>

NoRequest == [offset |-> 0, length |-> 0]
NoReply == [status |-> "none", data |-> <<>>]

Chunks == CeilDiv(Length, ChunkSize)
MapBytes == CeilDiv(Chunks, ByteBits)

ReadTypeOK ==
    /\ phase \in {"excluding", "mapping", "serving"}
    /\ bitmap \subseteq StorageBits
    /\ known_data_map \subseteq 0 .. MapBytes * ByteBits - 1
    /\ request.offset \in 0 .. Length
    /\ request.length \in 0 .. UlongMax
    /\ reply.status \in {"none", "success", "end_of_file",
                         "invalid_parameter", "error"}
    /\ free \subseteq 0 .. ClusterCount - 1

-----------------------------------------------------------------------------
(* OpenDevices                                                               *)

\* LoadAllocationBitmap: any bitmap that covers the clusters, with anything
\* in the bits behind them.
ReadInit ==
    /\ phase = "excluding"
    /\ bitmap \in SUBSET StorageBits
    /\ known_data_map = {}
    /\ request = NoRequest
    /\ reply = NoReply
    /\ free = (0 .. ClusterCount - 1) \ bitmap

\* ExcludeVssStorage visits an extent of a file of VSS.  Extents may overlap
\* and come in any order.
ExcludeExtent(first, limit) ==
    /\ phase = "excluding"
    /\ bitmap' = MarkClustersFree(bitmap, first, limit)
    /\ free' = free \cup (first .. limit - 1)
    /\ UNCHANGED <<phase, known_data_map, request, reply>>

\* All are visited, or an exception ends the enumeration and DeviceFs
\* continues anyway.
EndExclusion ==
    /\ phase = "excluding"
    /\ phase' = "mapping"
    /\ UNCHANGED <<bitmap, known_data_map, request, reply, free>>

\* The loop of MakeKnownDataMap.
KnownDataMapByChunk(bits) ==
    {chunk \in 0 .. Chunks - 1 :
        HasAllocatedClusters(bits, chunk * ChunkSize,
                             Min({ChunkSize, Length - chunk * ChunkSize}))}

\* Mutant: the result of the reduction is used as it is.
ReducedOnly(bits) == ReduceBitmap(bits, ChunkSize \div ClusterSize)

\* MakeKnownDataMapUsingSimd: the reduction, corrected from the chunk on that
\* the bitmap does not cover completely.
KnownDataMapUsingSimd(bits) ==
    LET ratio == ChunkSize \div ClusterSize
        complete_chunks == ClusterCount \div ratio
        reduced == ReduceBitmap(bits, ratio)
        offset == complete_chunks * ChunkSize
        later == complete_chunks .. MapBytes * ByteBits - 1
        corrected ==
            IF HasAllocatedClusters(bits, offset,
                                    Min({ChunkSize, Length - offset}))
            THEN later ELSE later \ {complete_chunks}
    IN  IF complete_chunks >= Chunks THEN reduced
        ELSE {chunk \in reduced : chunk < complete_chunks} \cup corrected

\* The vectorised form is used for chunks of kSimdChunkSize and the cluster
\* sizes that DispatchReduceBitmap has an instance for.
MakeKnownDataMap ==
    /\ phase = "mapping"
    /\ \/ known_data_map' = KnownDataMapByChunk(bitmap)
       \/ known_data_map' = KnownDataMapUsingSimd(bitmap)
    /\ phase' = "serving"
    /\ UNCHANGED <<bitmap, request, reply, free>>

-----------------------------------------------------------------------------
(* Read                                                                      *)

\* WinFsp calls Read.
Request(offset, length) ==
    /\ phase = "serving" /\ request = NoRequest /\ reply = NoReply
    /\ request' = [offset |-> offset, length |-> length]
    /\ UNCHANGED <<phase, bitmap, known_data_map, reply, free>>

Reply(status, data) ==
    /\ phase = "serving" /\ request # NoRequest /\ reply = NoReply
    /\ reply' = [status |-> status, data |-> data]
    /\ UNCHANGED <<phase, bitmap, known_data_map, request, free>>

\* The answer reaches the caller.
Return ==
    /\ reply # NoReply
    /\ request' = NoRequest
    /\ reply' = NoReply
    /\ UNCHANGED <<phase, bitmap, known_data_map, free>>

\* The bytes [position, position + count) of the source.
SourceBytes(position, count) == [i \in 0 .. count - 1 |-> position + i + 1]

InFile == request.length > 0 /\ request.offset < Length

\* The callback cuts the request at the end of the file.
Wanted == Min({request.length, Length - request.offset})

ReadBegin == (request.offset \div SectorSize) * SectorSize
ReadEnd == CeilDiv(request.offset + Wanted, SectorSize) * SectorSize
ReadLength == ReadEnd - ReadBegin

AllFree == ~HasAllocatedClusters(bitmap, request.offset, Wanted)
Direct == ReadBegin = request.offset /\ ReadLength = Wanted

ReadOutsideFile ==
    /\ ~InFile
    /\ Reply(IF request.length = 0 THEN "success" ELSE "end_of_file", <<>>)

ReadSynthetic ==
    /\ InFile /\ AllFree
    /\ Reply("success", [i \in 0 .. Wanted - 1 |-> 0])

ReadTooLong ==
    /\ InFile /\ ~AllFree /\ ReadLength > UlongMax
    /\ Reply("invalid_parameter", <<>>)

\* ReadFile fails or completes short, or there is no memory for a buffer
\* larger than the retained one.
ReadFails ==
    /\ InFile /\ ~AllFree /\ ReadLength <= UlongMax
    /\ Reply("error", <<>>)

\* Both ends are on sectors: the source is read into the caller's buffer.
ReadDirect ==
    /\ InFile /\ ~AllFree /\ ReadLength <= UlongMax /\ Direct
    /\ Reply("success", SynthesizeFreeClusters(bitmap,
                            SourceBytes(request.offset, Wanted),
                            request.offset))

\* Mutant: the free clusters are cleared in the bounce buffer's coordinates.
CopiedShifted(bounce) ==
    LET copy_offset == request.offset - ReadBegin
    IN  SynthesizeFreeClusters(bitmap,
            [i \in 0 .. Wanted - 1 |-> bounce[i + copy_offset]], ReadBegin)

\* What is copied from the bounce buffer, then cleared where it is free.
Copied(bounce) ==
    LET copy_offset == request.offset - ReadBegin
    IN  SynthesizeFreeClusters(bitmap,
            [i \in 0 .. Wanted - 1 |-> bounce[i + copy_offset]],
            request.offset)

\* Otherwise whole sectors are read into a buffer of the thread, or a new one
\* if they are more than kRetainedReadBufferSize.
ReadBounced ==
    /\ InFile /\ ~AllFree /\ ReadLength <= UlongMax /\ ~Direct
    /\ Reply("success", Copied(SourceBytes(ReadBegin, ReadLength)))

-----------------------------------------------------------------------------

ReadNext ==
    \/ \E first \in 0 .. ClusterCount - 1 :
           \E limit \in first + 1 .. ClusterCount : ExcludeExtent(first, limit)
    \/ EndExclusion
    \/ MakeKnownDataMap
    \/ \E offset \in 0 .. Length, length \in 0 .. UlongMax :
           Request(offset, length)
    \/ ReadOutsideFile
    \/ ReadSynthetic
    \/ ReadTooLong
    \/ ReadFails
    \/ ReadDirect
    \/ ReadBounced
    \/ Return

ReadSpec == ReadInit /\ [][ReadNext]_readVars

-----------------------------------------------------------------------------
(* Properties                                                                *)

\* What the image contains at p: zero in a cluster that is free, the source's
\* byte in the others and behind the last cluster.
ImageByte(p) == IF p \div ClusterSize \in free THEN 0 ELSE p + 1

\* A successful read has as many bytes as the file has in the requested range,
\* and they are the image's: the word-wise searches, the rounding to sectors,
\* the copy from the bounce buffer and the clearing of free runs agree with
\* the definition of the image, for every bitmap, whatever the bits behind the
\* last cluster are and after any exclusions.
ReadsTheImage ==
    (reply.status = "success" /\ request.length > 0) =>
        reply.data = [i \in 0 .. Min({request.length,
                                      Length - request.offset}) - 1 |->
                         ImageByte(request.offset + i)]

\* The bit of a chunk is clear exactly if the image is zero in all of it, so
\* the backup client neither replaces data by zeros nor reads zeros it could
\* make up; the vectorised and the plain computation agree.
KnownDataMapIsExact ==
    phase = "serving" =>
        \A chunk \in 0 .. Chunks - 1 :
            chunk \in known_data_map <=>
                \E p \in chunk * ChunkSize ..
                             Min({(chunk + 1) * ChunkSize, Length}) - 1 :
                    ImageByte(p) # 0

=============================================================================
