SPECIFICATION FairSpec
CONSTANTS
    client = client
    Children = {client}
INVARIANTS
    StopRequestReachesChildren
    NoPidsAfterExit
    SuccessMeansUploaded
PROPERTIES
    ImplementsPbsOperation
    CancellationEndsRunPbsFish
    TermEndsOperation
