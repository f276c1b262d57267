SPECIFICATION FairSpec
CONSTANTS
    mapper = mapper
    samba = samba
    Children = {mapper, samba}
    StartableSignals = {"TERM"}
INVARIANTS
    ServedDiskKeepsItsStorage
    ZeroMeansServed
PROPERTIES
    TermEndsView
    EndOfDeviceFsStopsWsl
    CancellationEndsView
