SPECIFICATION OfferedSpec
CONSTANTS
    ann = ann
    t1 = t1
    t2 = t2
    w1 = w1
    w2 = w2
    None = None
    ZeroAddress = ZeroAddress
    Accounts = {ann}
    Tokens = {t1}
    WideTokens = {}
    StrayTokens = {}
    OfferKeys = {1}
    Expiries = {1}
    MaxTimestamp = 1
    Workers = {w1}
    REORG_SAFE_DEPTH = 1
    reorgSafetyMarginBlocks = 1
    maxBlockRange = 2
    MaxLog = 7
    MaxBlock = 4
    MaxCrashes = 0
    MaxAborts = 0
INVARIANTS
    MirrorIsReplay

    
