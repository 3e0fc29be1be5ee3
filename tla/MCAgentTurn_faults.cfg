SPECIFICATION Spec
CONSTANTS
    Keys <- TwoKeys
    SafeChars <- MCSafeChars
    HeartbeatKeys <- OneKey
    NotLoaded = NotLoaded
    Faults = {"load", "remove"}
    ContextSize = 5
    ReserveTokens = 2
    KeepRecentTokens = 2
    SummaryTokens = 1
    MaxEmptyRetries = 1
    ToolTokens = {3}
    MaxCalls = 1
    MaxChats = 1
    MaxInjections = 1
    MaxMsgs = 5
INVARIANT PruneKeepsOlderHistory
CHECK_DEADLOCK FALSE
