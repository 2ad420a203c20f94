SPECIFICATION MirrorFairSpec
CONSTANTS
    alice = alice
    bot = bot
    t1 = t1
    c1 = c1
    NoAccount = NoAccount
    NoCall = NoCall
    NoSnapshot = NoSnapshot
    NoRow = NoRow
    LastTimestamp = 1
    Accounts = {alice, bot}
    Contracts = {bot}
    Admin = alice
    Tokens = {t1}
    CollectionIds = {c1}
    CollectionOf <- TokensOfOneCollection
    Creator <- NobodyCreates
    Prices = {0, 20}
    Expiries = {0}
    BpsChoices = {1000}
    MaxOffers = 1
    MaxTime = 1
INVARIANTS
    OwnersMirrored
    
    ListingsNotInvented
PROPERTIES
    EscrowIsRecoverable
