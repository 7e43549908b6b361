\* Applying history fails, fatally or as a nondeterminism error; histories cannot
\* be read, when a task is polled and when a run has to be rebuilt; lang code and
\* calls to the server fail, while a local activity runs; the worker may shut
\* down at any point, ignoring evictions.
CONSTANTS
    Runs = {r1}
    CacheSize = 1
    IgnoreEvicts = TRUE
    MaxTasks = 2
    MaxCalls = 2
    MaxEvicts = 1
    MaxLas = 1
    MaxSequences = 1
    Attempts = {1}
    Kinds = {"task", "query"}
    MachineErrors = {"fatal", "nde"}
    LangErrors = {"fail", "nde"}
    Paged = FALSE
    FetchErrors = {"poll", "full"}
    RpcErrors = TRUE
    MayShutDown = TRUE
    FailWorkflowOnNde = FALSE
SPECIFICATION Spec
INVARIANTS
    AssertionsHold
    LasGetAnotherTask
    NoStrandedWork
CONSTRAINT ResultsDieWithRun
CHECK_DEADLOCK FALSE
