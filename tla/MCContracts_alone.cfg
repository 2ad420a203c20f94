SPECIFICATION ContractsSpec
CONSTANTS
    hood = hood
    coin = coin
    hoodAdapter = hoodAdapter
    coinAdapter = coinAdapter
    s1 = s1
    t1 = t1
    t2 = t2
    feed1 = feed1
    admin = admin
    alice = alice
    bot = bot
    d1 = d1
    d2 = d2
    u0 = u0
    NoMetadata = NoMetadata
    NoAdapter = NoAdapter
    Deployments = {d1, d2}
    First = d1
    Accounts = {alice, bot}
    MaxId = 1
    MaxN = 3
    CurveCap = 4
    BpsCap = 1
    Amounts = {1, 2}
    Values = {1, 3}
    URIs = {u0}
    Providers = {hood, coin}
    Symbols = {s1}
    Tokens = {t1, t2}
    Oracles = {feed1}
    Chains = {4663}
    HomeChain = 4663
    Classes = {"EQUITY", "CRYPTO"}
    ClassOf <- ClassByProvider
    AdapterOf <- AdapterByProvider
    RegistryAdmin = admin
    AssetAdmins = {admin, hoodAdapter}
    TokenDecimals <- DecimalsByToken
    Multipliers = {0, 1}
    MaxComponents = 2
    BpsTotal = 2
    Wad = 100
    Parties = {alice, bot}
    Contracts = {bot}
    Powerful = {bot}
    MaxTokens = 2
    MintCurves <- TwoCurves
    Payments = {0, 1, 2}
    MintWeights = {0, 1, 2}
    MintReps <- Submitted
    Deployed <- Listed
INVARIANTS
    FeesWithinCap
    RoyaltyHasOwner
    RegistriesConsistent
    CompositionsHold
    NoHalfMint
    
PROPERTIES
    OwnersPermanent
    RepresentationsPinned
    ImplementsLedger
