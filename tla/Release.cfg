SPECIFICATION Spec
CONSTANTS
    NONE = NONE
    FileWriters = {"w1", "w2"}
    MaxWrites = 3
    MaxFileFaults = 2
    LoggedEvents <- TheEvents
    MaxTail = 2
    MaxSourceRows = 4
    MaxEventAge = 0
    MaxLogged = 3
    MaxStatusTime = 1
    MaxStatusFaults = 1
    MaxPublications = 2
    Requests <- TheRequests
    Finalizers = {1, 2}
    Revisions = {"s1", "s2"}
    MaxFinalizerRuns = 2
    MaxReads = 2
    MaxReleaseFaults = 2
    Auditors = {1, 2}
    AuditConfs <- TheConfs
    Manifests <- TheManifests
    SignedIndexes <- TheIndexes
    FirstReserved = "a"
    MaxRecentWalk = 2
    ChainLookupSlotCap = 1
    MaxAudits = 2
    MaxAuditDeaths = 1
    LaunchVectors <- TheLaunchVectors
    LaunchReports <- TheLaunchReports
    LaunchReleases = {"r1", "r2"}
    RewardedUid = 1
    BurnUid = 0
    LaunchHotkeys = {"n", "p"}
    SubnetBurn = "o"
    ApprovalLifetime = 3
    MortalEra = 2
    FirstLaunchBlock = 3
    LastLaunchBlock = 5
    MaxApprovals = 2
    MaxWorldChanges = 2
CHECK_DEADLOCK FALSE
INVARIANTS
    FileInv
    StreamInv
    RelInv
    AuditInv
    LaunchGateInv
