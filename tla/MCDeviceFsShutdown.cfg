SPECIFICATION FsFairSpec
CONSTANTS
    Clients = {c1, c2}
    MaxOpens = 2
INVARIANTS
    NoCallbackAfterDestruction
    HeldFilesAreServed
    FailureIsReported
PROPERTY StopEndsProcess
