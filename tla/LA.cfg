CONSTANTS
    a = a
    r = r
    Las = {a, b}
    Runs = {r}
    RunOf <- OneRun
    CloseTimeouts <- Close
    WithSchedToStart = {b}
    FirstAttempts = {0}
    Policy <- TwoAttempts
    Failures <- AllFailures
    LocalRetryThreshold = 2
    Slots = 1
    MaxRequested = 2
    MaxDuration = 1000
    MaxProto = 900
SPECIFICATION Spec
INVARIANTS AssertionsHold ResolvedOnce ShutdownLosesNothing
PROPERTIES EvictionProceeds OwedIsResolved
CHECK_DEADLOCK FALSE
