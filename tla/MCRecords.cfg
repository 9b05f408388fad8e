CONSTANTS
    Clients = {c1, c2}
    Keys = {k1, k2}
    None = None
    Listed = listed
    Codes = {x1, x2}
    Released = released
    Staged = staged
    Semantics = {s1}
    Active = active
    ProfileKeys = {b1}
    NAssets = 2
    ChangingAssets = {1}
    MaxAssetChanges = 2
    p1 = p1
    p2 = p2
    p3 = p3
    Providers <- ProviderOrder
    Policy = policy
    MaxAge = 2
    MaxCatalogCommands = 3
    MaxPromptCommands = 3
    MaxBrandCommands = 2
    MaxControlCommands = 3
    NRecords = 2
    Batch = 1
    Driven = TRUE
    MaxRebuilds = 1
    MaxFacts = 1
    MaxRebuildFaults = 1
    MaxRebuildCommands = 1
    ChangingVersions = {0}
    BrandMembers = {0}
    SameContent = FALSE
    CandidateLimit = 2
    ResultLimit = 1
    Chunk = 2
    PreviewLifetime = 1
    ReferenceLifetime = 1
    MaxChanges = 2

SPECIFICATION Spec
SYMMETRY Symmetry
INVARIANTS OnceEach NoDeadlock SnapshotKept PointerIsProduction ActiveIsLive
    NothingUnauthorised HonestHybrid
PROPERTY RouteIsCurrent
CHECK_DEADLOCK FALSE
