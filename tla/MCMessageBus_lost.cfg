SPECIFICATION Spec
CONSTANTS
    f1 = f1
    f2 = f2
    d1 = d1
    None = None
    Fragments = {f1, f2}
    ThreadOf <- OneThread
    Unnamed = {}
    Requests <- OneReplay
    PartsSize = 1
    BusSize = 1
    Listeners = {"cli", "discord", "imessage"}
    MaxItems = 1
    DiscordMessages = {d1}
INVARIANT NoFragmentLeftBehind
CHECK_DEADLOCK FALSE
