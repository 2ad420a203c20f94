SPECIFICATION FairSync
CONSTANTS
    hood = hood
    hoodAdapter = hoodAdapter
    s1 = s1
    s2 = s2
    t1 = t1
    t2 = t2
    feed1 = feed1
    feed2 = feed2
    admin = admin
    NoMetadata = NoMetadata
    NoAdapter = NoAdapter
    Providers = {hood}
    Symbols = {s1, s2}
    Tokens = {t1, t2}
    Oracles = {feed1, feed2}
    Chains = {4663}
    HomeChain = 4663
    Classes = {"EQUITY"}
    ClassOf <- AllEquity
    AdapterOf <- AdapterByProvider
    RegistryAdmin = admin
    AssetAdmins = {admin, hoodAdapter}
    TokenDecimals <- Eighteen
    Multipliers = {1}
    P = hood
    Lists <- SomeLists
    Seed <- OneRep
    MaxDisturbances = 2
    MaxCrashes = 1
    AdminDeactivatesAssets = TRUE
INVARIANTS
    SettledMirrorsList
PROPERTIES
    RegistryConverges
