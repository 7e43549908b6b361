CONSTANTS
    Acquirers = {"normal", "sticky"}
    Slots = 2
    MaxPermits = 2
    MaxBuffered = 1
    Configs <- MCConfigs
SPECIFICATION PollSpec
INVARIANTS
    PermitsAccountedFor
    NoSleepPastTarget
    LostOnlyAtShutdown
PROPERTIES
    BothKindsPolled
    PollersStop
CHECK_DEADLOCK FALSE
