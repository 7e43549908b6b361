SPECIFICATION Spec
CONSTANTS
    Programs <- SinglesAndPairs
    MaxSignals = 2
INVARIANTS
    
    CancelledNeverSent
    EventsReachTheirMachine
    CancelsReachServer
PROPERTIES
    ResultsArrive
CHECK_DEADLOCK FALSE
