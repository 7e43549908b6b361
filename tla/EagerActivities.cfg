CONSTANTS
    Completions = {c1, c2}
    Stream = stream
    Slots = 2
SPECIFICATION Spec
INVARIANTS
    NothingLeftInChannel
PROPERTIES
    ClosesUnlessRefused
CHECK_DEADLOCK FALSE
