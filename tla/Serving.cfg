SPECIFICATION Spec
CONSTANTS
    NONE = NONE
    LaneMiners = {"a", "b"}
    LaneUids = {0, 1, 2}
    BurnHotkey = "z"
    ProducerDocs <- TheDocs
    LaneMaxAge = 0
    FutureSkew = 0
    SnapshotMaxAge = 0
    MaxTotal = 4
    MaxLaneTime = 2
    MaxRowEdits = 1
    MaxPolls = 1
    UidMaps <- TheUidMaps
    MarkedEpochs = {2}
    LaneWorkers = {1}
    LaneConfigs <- TheLaneConfigs
    SatTotals <- TheSat
    LanePosts <- ThePosts
    ComposeMaxAge = 0
    MaxCycles = 1
    AttestWorkers = {1, 2}
    Provers = {"a", "b"}
    Instances = {"x", "y"}
    EvalRuns = {1, 2, 3}
    RunOwner <- TheOwners
    RunInstance <- TheInstances
    Digests = {"d", "e"}
    MaxNonces = 2
    MaxAttestTime = 1
    IngressThreads = {1, 2}
    IngressRequests <- TheSends
    MaxUnflushed = 1
    IpRpm = 1
    MaxAnswers = 3
    MaxVerdicts = 1
    GateSlots = {1, 2}
    GateRequests <- TheCalls
    GateConfs <- TheWebs
    Window = 2
    IdleTtl = 2
    MaxGateTime = 2
    MaxArrivals = 3
    MaxGroups = 1
    Ttl = 1
    Backoff = 1
    MaxInflight = 3
    MaxStale = 1
    Threads = {1, 2}
    SnapshotNames = {"board", "dashboard"}
    TopProcesses = {1, 2}
    WorkerStale = 1
    ReadyCache = 2
    MaxCacheTime = 4
    Webs = {1, 2}
    Blobs = {"s"}
    Faulty = {"signature"}
    Checkers = {1, 2}
    MaxBlobFaults = 2
    FeedRows <- TheRows
    PageLimit = 2
    SeedFaults = {"fetch", "insert", "checkpoint"}
    LiveBoards <- TheBoards
    LocalIds = {"c1"}
    MaxSeedFaults = 2
    MaxPasses = 3
    GraphNodes = 3
    Colors = 2
    Order = 2
    MaxDraws = 2
    CorpusFiles = {{}, {"f"}}
    Callers = {"v"}
    Permitted = {"v"}
    MinerRounds = {1, 2}
    Formulas = {"f", "g"}
    MinerTasks = {1, 2}
    ResponseCache = 1
    SolverSlots = 1
    Rpm = 1
    RateWindow = 2
    MaxMinerTime = 2
    MaxCalled = 2
    MaxPermitMoves = 1
    MaxCancels = 1
CHECK_DEADLOCK FALSE
INVARIANTS
    LanesSound
    AttestInv
    IngressInv
    CacheInv
    BlobInv
    IntakeSound
