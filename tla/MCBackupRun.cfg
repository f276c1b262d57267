SPECIFICATION FairSpec
CONSTANT UseWriters = TRUE
INVARIANTS
    RetainedOnlyOnSuccess
    WritersHearTheOutcome
    ExitCodeIsTruthful
    LifetimesNest
    UploadReadsOwnImages
PROPERTIES
    CancellationEndsBackup
