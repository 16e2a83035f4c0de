CONSTANTS
    None = None
    MILLIS_IN_A_DAY = 1
    DEATH_THRESHOLD = 3
    Kinds <- MCKinds
    Worlds <- MCDefs
    Tags = {1, 2}
    MaxThreads = 3
SPECIFICATION Spec
INVARIANTS Reconnected EntriesKnown UidMapFresh NativeKept
CHECK_DEADLOCK FALSE
