SPECIFICATION FairSpec
CONSTANTS
    Messages = {1, 2}
    Keys = {"c1", "c2"}
    ChannelOf <- TwoChannels
    Items <- MCItems
    Repeatable <- MCRepeatable
    None = None
    MaxConcurrentKeys = 1
    RetryLimit = 1
    Drains = {d1}
    ForumKeys = {"c2"}
    GatewayKeys = {}
    CursorOnlyKeys = {"c1"}
    MaxFaults = 3
    MaxSwitches = 0
    MaxCrashes = 1
PROPERTIES ComesUpAgain
CHECK_DEADLOCK FALSE
