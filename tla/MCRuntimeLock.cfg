SPECIFICATION MeetupSpec
CONSTANTS
    Processes = {p1, p2}
    Pids = {k1, k2, k3}
    NoRow = NoRow
    MaxStrangers = 1
    MaxFaults = 2
INVARIANTS LockInv ExclusiveWhileInTime MeetupInv MeetupIsNotMissed
PROPERTIES DeadHolderIsReplaced
CHECK_DEADLOCK FALSE
