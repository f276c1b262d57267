SPECIFICATION ReadSpec
CONSTANTS
    ByteBits = 2
    WordBits = 4
    ClusterSize = 2
    ClusterCount = 9
    Length = 26
    SectorSize = 2
    ChunkSize = 8
    UlongMax = 11
INVARIANTS
    ReadsTheImage
    KnownDataMapIsExact
