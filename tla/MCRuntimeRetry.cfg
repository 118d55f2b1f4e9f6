SPECIFICATION Spec
CONSTANTS
    Messages = {1, 2}
    Keys = {"c1"}
    ChannelOf <- OneChannel
    Items <- MCItems
    Repeatable <- MCRepeatable
    None = None
    MaxConcurrentKeys = 1
    RetryLimit = 2
    Drains = {d1, d2}
    ForumKeys = {}
    GatewayKeys = {"c1"}
    CursorOnlyKeys = {}
    MaxFaults = 2
    MaxSwitches = 1
    MaxCrashes = 0
INVARIANTS UnfinishedRowsHaveOwners PendingRetryHasJob CursorCoversOnlyOwned AnswersHaveCauses
CHECK_DEADLOCK FALSE
