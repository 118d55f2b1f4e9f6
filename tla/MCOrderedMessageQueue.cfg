SPECIFICATION MCSpec
CONSTANTS
    Keys = {"a", "b", "c"}
    Items <- MCItems
    Repeatable <- MCRepeatable
    MaxConcurrentKeys = 2
    None = None
    MaxSubmissions = 7
INVARIANTS QueueInv SeenCountsInFlight
PROPERTIES StartsInOrder ImplementsExecutor
CHECK_DEADLOCK FALSE
