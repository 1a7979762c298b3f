SPECIFICATION Spec
CONSTANTS
    h1 = h1  h2 = h2  c1 = c1  p1 = p1  s1 = s1  s2 = s2  t1 = t1  t2 = t2
    Hotkeys = {h1, h2}
    PublicChallenges = {c1}
    PmChallenges = {}
    Solutions = {s1, s2}
    Stamps = {t1, t2}
    Requests <- PublicRequests
    Good <- GoodPublic
    Receipts = {r1}
    Handlers = {a1}
    Workers = {w1, w2}
    BatchSize = 2
    LockSecs = 1
    RetainAge = 0
    RetentionOn = FALSE
    LockWins = FALSE
    PmModes = {"sync"}
    MaxRequests = 1
    MaxFails = 0
    NONE = NONE
SYMMETRY QueueSymmetry
INVARIANTS
    PaidReceiptSaysRanked
