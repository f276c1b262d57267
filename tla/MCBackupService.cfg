SPECIFICATION FairSpec
CONSTANTS
    GracefulStopTimeout = 4
    StrayProcessTimeout = 1
    ForcedTerminationTimeout = 2
    MaxStrays = 2
INVARIANTS
    ControlFindsEvent
    SuccessIsEarned
    JobEndsWithService
    StopWithinHint
PROPERTIES
    StopRequestEnds
