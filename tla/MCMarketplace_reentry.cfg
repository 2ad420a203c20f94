SPECIFICATION Spec
CONSTANTS
    alice = alice
    bot = bot
    t1 = t1
    t2 = t2
    c1 = c1
    c2 = c2
    NoAccount = NoAccount
    NoCall = NoCall
    NoSnapshot = NoSnapshot
    Accounts = {alice, bot}
    Contracts = {bot}
    Admin = bot
    Tokens = {t1}
    CollectionIds = {c1}
    CollectionOf <- TokensByCollection
    Creator <- BotCreatesFirst
    Prices = {25}
    Expiries = {0}
    BpsChoices = {1000}
    MaxOffers = 2
    MaxTime = 0
INVARIANTS
    EscrowSolvent
PROPERTIES
    PausedMarketOnlyDrains
    ImplementsOfferBook
