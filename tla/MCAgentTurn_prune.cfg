SPECIFICATION Spec
CONSTANTS
    Keys <- OneKey
    SafeChars <- MCSafeChars
    HeartbeatKeys <- OneKey
    NotLoaded = NotLoaded
    Faults = {}
    ContextSize = 0
    ReserveTokens = 2
    KeepRecentTokens = 2
    SummaryTokens = 1
    MaxEmptyRetries = 1
    ToolTokens = {1}
    MaxCalls = 1
    MaxChats = 1
    MaxInjections = 0
    MaxMsgs = 5
INVARIANT PruneDiscardsExchange
CHECK_DEADLOCK FALSE
