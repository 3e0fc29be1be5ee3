SPECIFICATION FairSpec
CONSTANTS
    main = main
    other = other
    MaxRuns = 1
    Callers = {main}
    SetupFails = FALSE
PROPERTY KillEndsRun
