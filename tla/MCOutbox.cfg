SPECIFICATION Spec
CONSTANTS
    Workers = {w1, w2}
    Events = {e1}
    MaxAttempts = 3
    Lease = 2
    BaseBackoff = 1
    MaxBackoff = 2
    MaxLag = 3
    MaxCrashes = 2
INVARIANTS
    InsightHasTransaction
    ProcessedWasHandled
PROPERTIES
    DismissedStaysDismissed
    OutboxIsAJobQueue
