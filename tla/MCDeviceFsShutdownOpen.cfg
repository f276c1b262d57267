SPECIFICATION FsSpec
CONSTANTS
    Clients = {c1}
    MaxOpens = 1
INVARIANTS
    ExitsWithFilesClosed
