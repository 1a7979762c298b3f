SPECIFICATION Spec
CONSTANTS
    h1 = h1  h2 = h2  c1 = c1  p1 = p1  s1 = s1  s2 = s2  t1 = t1  t2 = t2
    Hotkeys = {h1, h2}
    PublicChallenges = {c1}
    PmChallenges = {p1}
    Solutions = {s1, s2}
    Stamps = {t1, t2}
    Requests <- MixedRequests
    Good <- GoodMixed
    Receipts = {r1, r2, r3}
    Handlers = {a1, a2}
    Workers = {w1}
    BatchSize = 2
    LockSecs = 1
    RetainAge = 1
    RetentionOn = TRUE
    LockWins = TRUE
    PmModes = {"sync", "shadow", "async"}
    MaxRequests = 2
    MaxFails = 0
    NONE = NONE
SYMMETRY QueueSymmetry
INVARIANTS
    TypeOK
    SignaturePaysOnce
    LanesPayRight
PROPERTIES
    AdmitLeavesLiveReceipt
