SPECIFICATION Spec
CONSTANTS
    Keys <- OneKey
    SafeChars <- MCSafeChars
    HeartbeatKeys = {}
    NotLoaded = NotLoaded
    Faults = {}
    ContextSize = 6
    ReserveTokens = 2
    KeepRecentTokens = 2
    SummaryTokens = 1
    MaxEmptyRetries = 1
    ToolTokens = {1, 3}
    MaxCalls = 2
    MaxChats = 2
    MaxInjections = 1
    MaxMsgs = 7
INVARIANTS TypeOK RequestsWellFormed SystemPromptFirst UsageCoversPrefix RecoveryPromptsBounded
PROPERTY RemembersItsHistory
CHECK_DEADLOCK FALSE
