CONSTANTS
    Clients = {c1, c2}
    Keys = {k1, k2}
    None = None
    Listed = listed
    Codes = {x1, x2}
    Released = released
    Staged = staged
    Semantics = {s1}
    Active = active
    ProfileKeys = {b1}
    NAssets = 2
    ChangingAssets = {1}
    MaxAssetChanges = 0
    p1 = p1
    p2 = p2
    p3 = p3
    Providers <- ProviderOrder
    Policy = policy
    MaxAge = 2
    MaxCatalogCommands = 0
    MaxPromptCommands = 0
    MaxBrandCommands = 0
    MaxControlCommands = 0
    NRecords = 2
    Batch = 1
    Driven = FALSE
    MaxRebuilds = 1
    MaxFacts = 1
    MaxRebuildFaults = 0
    MaxRebuildCommands = 1
    ChangingVersions = {}
    BrandMembers = {0}
    SameContent = FALSE
    CandidateLimit = 2
    ResultLimit = 1
    Chunk = 3
    PreviewLifetime = 1
    ReferenceLifetime = 1
    MaxChanges = 0

SPECIFICATION RebuildSpec
SYMMETRY Symmetry
INVARIANT RebuildGoesOn
CHECK_DEADLOCK FALSE
