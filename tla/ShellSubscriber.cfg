SPECIFICATION FairSpec
CONSTANTS
    Calls = {1, 2, 3}
    Timed = {3}
INVARIANTS WritesOnlyDuringCall NoLostWakeup
PROPERTIES CallsEnd
