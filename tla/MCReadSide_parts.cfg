SPECIFICATION ReadSideSpec
CONSTANTS
    r1 = r1  r2 = r2  f1 = f1  f2 = f2  nofeed = nofeed
    ann = ann  bob = bob  c1 = c1  c2 = c2  btc = btc  usd = usd  m1 = m1  m2 = m2
    Components <- OneEach
    Multiplier <- OneEach
    Feeds = {f1, f2}
    NoFeed = nofeed
    FeedOf <- OneFeedEach
    Heartbeat = 1
    Grace = 1
    Answers = {0, 2}
    MintedAt = 1
    Windows = {1, 3}
    MaxTime = 3
    MaxDisturbances = 1
    Worlds <- SomeWorlds
    Wallets = {ann, bob}
    Collections = {c1, c2}
    Assets = {btc, usd}
    Prices = {1, 2}
    Rarities = {20, 80}
    Times = {1, 2, 3}
    Links <- SomeLinks
    Toggles = {"mid", "at-highs", "SALE", "MINT"}
    DEFAULT_PAGE_SIZE = 2
    MAX_PAGE_SIZE = 3
    ACTIVITY_DEFAULT_PAGE_SIZE = 2
    ACTIVITY_MAX_PAGE_SIZE = 4
    RECENT_ACTIVITY_LIMIT = 1
    Snapshots <- SomeSnapshots
    MaxRenders = 4
    MaxFetches = 2
    Drafts <- SomeDrafts
    CryptoAssets = {btc}
    MarketWords = {usd}
    FeedReps = {r1, r2}
    FeedPrices = {90, 100}
    MaxMintBlock = 3
    MaxTokens = 2
    MaxComponents = 2
    BpsTotal = 10000
    Wad = 10
    Runners = {m1, m2}
    Releases = {2, 3}
    MaxRuns = 4
INVARIANTS
    
    WindowsAreHonest
    BrowsedOnce
    ControlsNeverStrand
    
    PortfolioIsTheWallets
    PinnedVerifies
    SchemaIsTheLog
PROPERTIES
    UndegradedIsFresh
CHECK_DEADLOCK FALSE
