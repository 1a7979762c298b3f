SPECIFICATION Spec
CONSTANTS
    NONE = NONE  m1 = m1  m2 = m2  m3 = m3  ck = ck
    Miners = {m1, m2, m3}
    Challenges = {1, 2}
    HardChallenges = {2}
    ColdkeyOf <- TheColdkeys
    Grain = 12
    ShareNum = 1
    ShareDen = 10
    FeedConfigs <- TheFeedConfigs
    Payloads <- ThePayloads
    Polls <- ThePolls
    FirstClaims <- TheClaims
    MaxFeedTime = 1
    MaxFeedEvents = 3
    MaxAssigned = 1
    ReportWindow = 1
    SnapshotWindow = 1
    Replicas = {1, 2}
    SnapshotReplicas = {1}
    Postgres = {TRUE, FALSE}
    MaxData = 1
    MaxFeedDeaths = 1
    MaxVersion = 2
    SubnetUids = {0, 1, 2, 3, 4}
    Newcomers = {"x", "y"}
    Sellers = {"a"}
    OwnedHotkeys = {"o"}
    OwnerHotkey = "o"
    ImmuneOwnerLimit = 1
    MaxRegs = 1
    Immunity = 3
    MinNonImmune = 0
    MortalPeriod = 2
    SwapDelay = 2
    Subnets <- TheSubnets
    Policies = {NONE, "confidential_primary_v1", "validated_supply_v1"}
    SignedVectors <- TheSignedVectors
    FirstBlock = 4
    LastBlock = 6
    GpuProcesses = {1, 2}
    Machines = {"h200", "h200b"}
    TeeProfiles = {"h200", "h200b"}
    Tpus = {}
    GpuPolicies = {"none", "crypto"}
    MaxOffers = 1
    MaxOperations = 2
    MaxGpuDeaths = 1
    Sources = {"slow", "fast"}
    Publications <- ThePublications
    Behaves <- TheBehaviours
    Installed = "slow"
    Batches <- TheBatches
    Breakers <- TheBreakers
    Runners <- TheRunners
    Payers = {1, 2}
    Timeout = 10
    Margin = 1
    BatchSize = 2
    MaxRound = 1
    MaxSeeds = 2
    MaxBreakers = 1
    MaxArenaFaults = 1
    MaxArenaDeaths = 1
    BoardTiers <- OneTier
    Target = 1
    MintCap = 2
    Saturated = 1
    PregenSize = 1
    CacheSize = 1
    BoardServers = {1}
    Refiller = 1
    BoardConfs <- TheBoardConfs
    MaxHour = 1
    MaxMints = 1
    MaxRows = 2
    MaxBoardFaults = 1
    EpochPublishers = {1, 2}
    IdentityLists <- TheLists
    ArtifactBases = {"u"}
    MinerHotkeys = {"h"}
    LastEpoch = 1
    MaxGrants = 1
    MaxBucketFaults = 1
    MaxRemaps = 1
CHECK_DEADLOCK FALSE
INVARIANTS
    ScoresSound
    UidInv
    GpuInv
    ArenaInv
    BoardSound
    ArtifactInv
PROPERTIES
    FeedMovesForward
