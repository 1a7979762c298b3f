SPECIFICATION Spec
CONSTANTS
    relay1 = relay1  launcher = launcher  full = full
    auth1 = auth1
    NONE = NONE
    Procs = {relay1}
    Mode <- OneRelay
    MaxSubmissions <- NoBudget
    Auths = {}
    AuthLanes <- NoAuths
    AuthFrom <- NoNumbers
    AuthMax <- NoNumbers
    RequireCompletedLaunch = FALSE
    MortalPeriod = 2
    Windows = {2}
    MaxVersion = 1
    MaxHead = 5
    MaxCrashes = 0
    DispatchFails = FALSE
INVARIANTS
    ContradictionIsReal
