SPECIFICATION FairSpec
CONSTANTS
    h1 = h1  c1 = c1  i1 = i1  i2 = i2  NONE = NONE
    Hotkeys = {h1}
    Challenges = {c1}
    Identities = {i1, i2}
    Owner <- OneOwner
    ChEpoch <- FirstEpoch
    Configs = {g1, g2}
    Workers = {w1, w2}
    Handlers = {a1}
    BatchSize = 1
    MaxPending = 1
    BridgeOn = TRUE
    MaxEpoch = 2
    MaxChanges = 1
    MaxFails = 1
CHECK_DEADLOCK FALSE
INVARIANTS
    BitsetInv
PROPERTIES
    EventResolved
