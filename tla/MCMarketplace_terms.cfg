SPECIFICATION Spec
CONSTANTS
    alice = alice
    bot = bot
    t1 = t1
    t2 = t2
    c1 = c1
    c2 = c2
    NoAccount = NoAccount
    NoCall = NoCall
    NoSnapshot = NoSnapshot
    Accounts = {alice, bot}
    Contracts = {bot}
    Admin = alice
    Tokens = {t1, t2}
    CollectionIds = {c1, c2}
    CollectionOf <- TokensByCollection
    Creator <- BotCreatesFirst
    Prices = {25}
    Expiries = {0}
    BpsChoices = {1000, 2000}
    MaxOffers = 1
    MaxTime = 1
INVARIANTS
    SellerKeepsEightTenths
    
PROPERTIES
    SalesAreAgreed
