SPECIFICATION Spec
CONSTANTS
    ByteBits = 1
    WordBits = 2
    kBitsPerWord = 2
    ClusterSize = 1
    ClusterCount = 5
    BlockSize = 2
    ChunkSize = 4
    MaxChanges = 3
    MaxSnapshots = 1
    InitialAllocations <- MCInitialAllocations
INVARIANT DirtyMapCoversChanges
CHECK_DEADLOCK FALSE
