CONSTANTS
    KeyLimit = 1
    Worlds <- MCDefs
    Limits <- MCLimits
SPECIFICATION Spec
INVARIANTS UpdatedAsNew KeptIffUnchanged DataRight
CHECK_DEADLOCK FALSE
