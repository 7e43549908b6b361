\* Two runs compete for a cache of one: tasks and legacy queries wait for a slot,
\* are buffered, and are handed on when the run before them is evicted.
CONSTANTS
    Runs = {r1, r2}
    CacheSize = 1
    IgnoreEvicts = FALSE
    MaxTasks = 3
    MaxCalls = 2
    MaxEvicts = 0
    MaxLas = 0
    MaxSequences = 1
    Attempts = {1}
    Kinds = {"task", "legacy"}
    MachineErrors = {}
    LangErrors = {}
    Paged = FALSE
    FetchErrors = {}
    RpcErrors = FALSE
    MayShutDown = FALSE
    FailWorkflowOnNde = FALSE
SPECIFICATION Spec
INVARIANTS
    CacheNeverOverflows
    NoCollision
    OneActivationAtATime
PROPERTIES
    NewestTaskKeptUnlessSuperseded
SYMMETRY Symmetry
CHECK_DEADLOCK FALSE
