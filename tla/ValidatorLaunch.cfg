SPECIFICATION Spec
CONSTANTS
    relay1 = relay1  launcher = launcher  full = full
    auth1 = auth1
    NONE = NONE
    Procs = {launcher, relay1, full}
    Mode <- LaunchHost
    MaxSubmissions <- LaunchBudget
    Auths = {auth1}
    AuthLanes <- BothLanes
    AuthFrom <- FromOne
    AuthMax <- OneAttempt
    RequireCompletedLaunch = TRUE
    MortalPeriod = 2
    Windows = {2}
    MaxVersion = 1
    MaxHead = 5
    MaxCrashes = 0
    DispatchFails = TRUE
INVARIANTS
    LaunchFenced
PROPERTIES
    ImplementsWeightChain
