SPECIFICATION Spec
CONSTANTS
    Messages = {m, n, p}
    Elsewhere = {}
    None = None
    Threshold = 2
    Short = 1
    Rolling = 2
    Lookback = 3
    MaxTime = 4
    Waits = {"none", "done", "timeout", "kick", "running", "queued"}
    MaxFaults = 1
SYMMETRY Symmetric
INVARIANTS SanctionInv OneTimeoutPerCrossing OffendersAreSanctioned
CHECK_DEADLOCK FALSE
