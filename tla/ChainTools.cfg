SPECIFICATION Spec
CONSTANTS
    NONE = NONE  u1 = u1  u2 = u2
    Operators = {o1, o2}
    NewHotkeys = {n1, n2}
    EraPeriod = 2
    MaxBlock = 6
    MaxDrift = 1
    MaxReviews = 2
    MaxFaults = 1
    MaxUpsets = 1
    Hosts = {o1, o2}
    Owners = {u1, u2}
    Founder = u1
    Reports <- TheReports
    Registrations <- TheRegistrations
    BurnPolicy = TRUE
    MaxRound = 2
    MaxCalls = 2
    MaxChurn = 1
    MaxAccepts = 1
    MaxFailures = 1
SYMMETRY ToolSymmetry
CHECK_DEADLOCK FALSE
INVARIANTS
    SentIsRecorded
    SwapInv
    ThinInv
