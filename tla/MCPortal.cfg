SPECIFICATION PortalSpec
CONSTANTS
    gateway = gateway
    zero = zero
    s1 = s1
    payee = payee
    vault = vault
    public = public
    none = none
    Accounts = {gateway}
    Owner = gateway
    ZeroAddress = zero
    Safes = {s1}
    Payees = {payee}
    Vault = vault
    Public = public
    NoHandle = none
    Modulus = 4
    Amounts = {1}
    MaxFunded = 1
    MaxEpoch = 2
    MaxCount = 2
    MaxBatches = 1
    DemoBudget = 1
    DemoCap = 1
    DemoWithin = 1
    DemoOver = 2
    Consoles = {"a"}
    Agents = {"a1", "a2"}
    Tiers = {"basic", "pro"}
    NoTier = "none"
    Before <- OneHasTier
    MaxAsked = 2
    IdSuffixes = {1}
    InitRows <- TwoRows
    Slots = {1, 2}
    MaxNodes = 3
    MaxEdits = 2
    Tools = {"t"}
    Flows = {"w"}
    MaxPatches = 3
    Workflows = {"w"}
    Ttl = 1
    MaxRevision = 2
    LoadIds = {1, 2}
    Publishes = {1, 2, 3}
    SkillNames <- TwoNames
    Skills <- SomeSkills
    Apis = 2
    Services = 3
    PriceLists <- SomePrices
    MaxPrice = 6
    NotANumber = NaN
    Double <- FivesAreFours
    Rounded <- LargeIsLarge
    Latencies = {1, 4}
    MaxSamples = 2
    RateUnit = 2
    RowNames <- NamesGiven
    TypedSlugs <- SlugsTyped
    MaxRows = 2
    MaxForms = 2
    BuiltinTools = {"b"}
    ApiTools = {"t"}
    FormFlows = {"w"}
    MaxToggles = 2
    MaxServers = 2
    Runs = {1, 2}
    Manifests <- Documents
    Inputs <- CallerInputs
    Redirects <- Elsewhere
    Walls = {1, 3}
    Drawings <- Samples
INVARIANTS
    StoredGraphsRunnable
    CleanMeansStored
    WalksAnswerRight
    BatchesPaySealedTotals
    TierWasConfirmed
    PublishStands
    PublishedIsFound
    ChosenUndominated
    SettledMeansShown
    TestsReachNamesakes
    
    SandboxBounds
CHECK_DEADLOCK FALSE
