SPECIFICATION Spec
CONSTANTS
    Owners = {o1, o2}
    mMinUpdateTimeSec = 1
    NeedsCompanion = FALSE
    TicksPerSec = 2
    RefractorySecs = 1
    WithRefractory = {o1}
    MaxNow = 5
INVARIANTS MonitorSound
PROPERTIES NeverEarly RefractoryRespected
