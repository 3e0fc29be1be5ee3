SPECIFICATION FairSpec
CONSTANTS
    main = main
    other = other
    MaxRuns = 1
    Callers = {main, other}
    SetupFails = TRUE
INVARIANTS TypeOK WaitReportsTheEnd SnapshotConsistent
PROPERTIES ImplementsLifecycle TimeoutEndsRun CancelEndsRun
