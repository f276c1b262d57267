SPECIFICATION Spec
CONSTANTS
    Parent <- MCParent
    VssExcluded <- MCVssExcluded
    Volumes <- MCVolumes
    Workers <- MCWorkers
    Streams = {0, 1}
    ComparisonWorkers = {"c1", "c2"}
INVARIANTS
    VerifiedMeansEqual
    MismatchIsReal
    DetachIsNotInterrupted
PROPERTY CancellationEndsVerification
