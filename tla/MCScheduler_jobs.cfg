SPECIFICATION FairSpec
CONSTANTS
    NewSchedules <- MCSchedules
    HeartbeatEvery = 2
    MaxJobs = 2
    MaxTime = 3
    Buffer = 1
    MaxRestarts = 1
    MaxSaveFaults = 1
INVARIANTS AnswersAreDurable DiskIsCurrent FiresOncePerOccasion NeverEarly
 
