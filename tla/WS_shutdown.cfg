\* Shutdown at any point while two runs, with local activities, share a cache of
\* one.
CONSTANTS
    Runs = {r1, r2}
    CacheSize = 1
    IgnoreEvicts = FALSE
    MaxTasks = 2
    MaxCalls = 2
    MaxEvicts = 0
    MaxLas = 1
    MaxSequences = 1
    Attempts = {1}
    Kinds = {"task"}
    MachineErrors = {}
    LangErrors = {}
    Paged = FALSE
    FetchErrors = {}
    RpcErrors = FALSE
    MayShutDown = TRUE
    FailWorkflowOnNde = FALSE
SPECIFICATION FairSpec
INVARIANTS
    ShutdownDrains
PROPERTIES
    ShutdownCompletes
    TasksSettle
CHECK_DEADLOCK FALSE
