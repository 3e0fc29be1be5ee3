SPECIFICATION Spec
CONSTANTS
    Configs <- MCConfigs
    Replies = {"a", "b"}
    UsageLines = {"[tokens: 1]", "[tokens: 2]"}
    CompactionLines = {"[compacted: 2]"}
    Day = 4
    MaxTime = 9
INVARIANTS QuietHoursKept  OnlyDeliveredIsRemembered
CHECK_DEADLOCK FALSE
