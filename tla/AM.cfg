CONSTANTS
    Tokens = {t}
    MaxHeartbeats = 2
    Heartbeating = {t}
    Replies = {"ok", "Cancelled", "NotFound"}
    Timeouts = {t}
    GracePeriod = TRUE
    Overlap = FALSE
SPECIFICATION Spec
INVARIANTS
    TornDownLast
    ReportedAfterHeartbeats
PROPERTIES
    CompletionsEnd
    ShutdownEnds
    LatestIsReported
CHECK_DEADLOCK FALSE
