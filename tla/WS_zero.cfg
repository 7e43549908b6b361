\* max_cached_workflows = 0: a run is evicted as soon as it waits for nothing.
CONSTANTS
    Runs = {r1, r2}
    CacheSize = 0
    IgnoreEvicts = FALSE
    MaxTasks = 3
    MaxCalls = 2
    MaxEvicts = 0
    MaxLas = 1
    MaxSequences = 1
    Attempts = {1}
    Kinds = {"task"}
    MachineErrors = {}
    LangErrors = {}
    Paged = FALSE
    FetchErrors = {}
    RpcErrors = FALSE
    MayShutDown = FALSE
    FailWorkflowOnNde = FALSE
SPECIFICATION Spec
INVARIANTS
    NoStrandedWork
PROPERTIES
    TaskStaysWithActivation
CONSTRAINT ResultsDieWithRun
SYMMETRY Symmetry
CHECK_DEADLOCK FALSE
