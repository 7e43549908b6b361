SPECIFICATION Spec
CONSTANTS
    MaxLas = 2
    Types = {"TryCancel", "Abandon", "WaitCancellationCompleted"}
    MaxSignals = 1
    MaxHeartbeats = 1
    MaxLosses = 2
    MaxCommands = 2
INVARIANTS
    OnlyKnownDivergences
    ReplayAccepted
    RecordedAsDelivered
PROPERTIES
    NotExecutedAgain
CHECK_DEADLOCK FALSE
