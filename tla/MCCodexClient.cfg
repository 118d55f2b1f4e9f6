SPECIFICATION FairSpec
CONSTANTS
    t1 = t1
    t2 = t2
    th = th
    uh = uh
    None = None
    Turns <- MCTurns
    Threads <- MCThreads
    Sessions <- MCSessions
    Children = {c1, c2}
    ReadAttempts = 2
    Interruptible = {t2}
    MaxFaults = 1
INVARIANTS ClientInv OwnAnswer
PROPERTIES TurnsSettle IdleServerCloses
CHECK_DEADLOCK FALSE
