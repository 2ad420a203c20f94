SPECIFICATION WebSpec
CONSTANTS
    empty = empty
    preset = preset
    wrong = wrong
    btc = btc
    nvda = nvda
    r1 = r1
    r2 = r2
    r3 = r3
    none = none
    Values = {empty, preset, wrong}
    Empty = empty
    Preset = preset
    Calls <- Spellings
    NoCall = none
    Simulates <- Passes
    MaxSent = 1
    MaxPresses = 2
    NodeMayFail = TRUE
    AvailableAssets <- Assets3
    WeightInputs = {2, 3}
    UnitsPerBps = 1
    BpsTotal = 4
    MaxComponents = 2
    Wad = 100
    MaxDelisted = 1
    MaxMints = 1
INVARIANTS
    SuccessIsOnChain
    SignedWasAgreed
    ValidatedBeforePreview
    ValidatorMatchesContract
    ConcentrationPays
PROPERTIES
    SubmissionSettles
CHECK_DEADLOCK FALSE
