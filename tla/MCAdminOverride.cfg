SPECIFICATION Spec
CONSTANTS
    Write = write
    Read = read
    None = None
    Start = start
    Messages = {m, n, o}
    Opened = {m, o}
    Ends = {e}
    Callers = {start, m, n, o, e}
    Identities = {write, read}
    CodexThreads = {c1, c2, c3, c4, c5}
    MaxSkillChanges = 1
    MaxFaults = 1
    MaxRestarts = 1
INVARIANTS SessionInv EndedMeansClosed
PROPERTIES WriteNeedsOverride FreshAfterSkillsChange
SYMMETRY MCSymmetry
CHECK_DEADLOCK FALSE
