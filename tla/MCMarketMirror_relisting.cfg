SPECIFICATION MirrorSpec
CONSTANTS
    alice = alice
    bot = bot
    t1 = t1
    c1 = c1
    NoAccount = NoAccount
    NoCall = NoCall
    NoSnapshot = NoSnapshot
    NoRow = NoRow
    LastTimestamp = 1
    Accounts = {alice, bot}
    Contracts = {bot}
    Admin = alice
    Tokens = {t1}
    CollectionIds = {c1}
    CollectionOf <- TokensOfOneCollection
    Creator <- NobodyCreates
    Prices = {20}
    Expiries = {0}
    BpsChoices = {1000}
    MaxOffers = 0
    MaxTime = 0
INVARIANTS
    ListingsMirrored
