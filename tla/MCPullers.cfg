CONSTANTS
    u1 = u1
    u2 = u2
    c1 = c1
    c2 = c2
    r1 = r1
    r2 = r2
    Uids = {u1, u2}
    Configs = {c1, c2}
    Receivers = {r1, r2}
    ConfigOf <- MCConfigOf
    PullUids <- MCPullUids
    Instances <- MCDefs
    TagId = 1
    HostUid <- MCHostUid
    MergeInputs <- MCMergeInputs
    AdditiveSets = {{3}, {2}, {2, 3}}
    Minute = 2
    Ms = 2
    kMinCoolDownNs = 2
    kMaxTimeoutNs = 1
    CoolDown = 1
    Timeout = 2
    None = None
    Start = 3
    MaxRegistrations = 3
    MaxConfigs = 2
SPECIFICATION Spec
INVARIANTS RegistrationsInForce PulledDataRight MergeRight
PROPERTY PullsHappen
CHECK_DEADLOCK FALSE
