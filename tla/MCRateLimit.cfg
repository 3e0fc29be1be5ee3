SPECIFICATION FairSpec
CONSTANTS
    Initial = 3
    Max = 30
    MaxChat = 9
INVARIANT RetryBudget
PROPERTY RetriesEnd
