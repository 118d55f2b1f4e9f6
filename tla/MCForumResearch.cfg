SPECIFICATION Spec
CONSTANTS
    Messages = {m, n}
    Directed = {n}
    WorkerIds = {i, j}
    Urls = {a, b}
    Slots = {s, t, u}
    None = None
    MaxWorkers = 2
    MaxRounds = 2
    MaxFaults = 2
INVARIANTS RunInv NumbersKeepTheirMeaning CollectedIsKept
PROPERTIES EveryMessageConcludes
CHECK_DEADLOCK FALSE
