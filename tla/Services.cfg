SPECIFICATION FairSpec
CONSTANTS
    NONE = NONE
    Processes = {p1, p2, p3}
    StealIdleSecs = 2
    MaxDeaths = 2
    Manifests = {m1, m2}
    Sound = {m1}
    Local = {m2}
    Verifiers = {w1, w2}
    ManifestBatch = 2
    MaxAttempts = 2
    MaxAborts = 2
    Operators = {o1}
    NewHotkeys = {n1}
    EraPeriod = 2
    MaxBlock = 3
    MaxDrift = 1
    MaxReviews = 1
    MaxFaults = 1
CHECK_DEADLOCK FALSE
INVARIANTS
    OneLoop
    QueueInv
PROPERTIES
    WorkersRecover
    SwapRecorded
