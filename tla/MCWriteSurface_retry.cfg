SPECIFICATION Spec
CONSTANTS
    empty = empty
    preset = preset
    wrong = wrong
    none = none
    Values = {empty, preset, wrong}
    Empty = empty
    Preset = preset
    Calls <- Spellings
    NoCall = none
    Simulates <- Passes
    MaxSent = 2
    MaxPresses = 3
    NodeMayFail = FALSE
INVARIANTS
    NeverSkips
CHECK_DEADLOCK FALSE
