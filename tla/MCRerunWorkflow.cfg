SPECIFICATION Spec
CONSTANTS
    Messages = {1, 2}
    Mentions = {1}
    Replies = {2}
    Interval = 2
    RetryLimit = 2
    None = None
    MaxFaults = 2
    MaxSwitches = 2

PROPERTY RerunTakesTheNewWorkflow
CHECK_DEADLOCK FALSE
