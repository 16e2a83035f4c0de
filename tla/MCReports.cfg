CONSTANTS
    MaxFileNumber = 3
    MaxFileSize = 6
    MaxAge = 2
    MaxHistoryAge = 1
    MaxChanges = 2
    MaxDeletedApps = 1
    Cooldown = 2
    CheckPeriod = 1
    BroadcastPeriod = 2
    TriggerBytes = 1
    DropBytes = 2
    MaxCalls = 2
    Worlds <- MCDefs
SPECIFICATION Spec
INVARIANTS
    Accounted
    LossBounded
    Announced
    ChangesReported
    SourcesRight
CHECK_DEADLOCK FALSE
