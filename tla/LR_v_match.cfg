SPECIFICATION Spec
CONSTANTS
    MaxLas = 2
    Types = {"TryCancel", "Abandon", "WaitCancellationCompleted"}
    MaxSignals = 1
    MaxHeartbeats = 1
    MaxLosses = 2
    MaxCommands = 2
INVARIANT ReplayMatches
CHECK_DEADLOCK FALSE
