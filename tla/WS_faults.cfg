\* One run whose histories come in pages, with failing lang code, failing calls
\* to the server, failing page fetches and evictions lang asks for.
CONSTANTS
    Runs = {r1}
    CacheSize = 1
    IgnoreEvicts = FALSE
    MaxTasks = 2
    MaxCalls = 2
    MaxEvicts = 1
    MaxLas = 0
    MaxSequences = 2
    Attempts = {1, 2}
    Kinds = {"task"}
    MachineErrors = {}
    LangErrors = {"fail", "nde"}
    Paged = TRUE
    FetchErrors = {"page"}
    RpcErrors = TRUE
    MayShutDown = FALSE
    FailWorkflowOnNde = FALSE
SPECIFICATION Spec

    
PROPERTIES
    TaskAnsweredFirst
CHECK_DEADLOCK FALSE
