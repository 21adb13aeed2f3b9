SPECIFICATION Spec
CONSTANTS
    Daemons = {d1}
    Tui = tui
    NoOne = none
    Other = other
    MaxTurns = 2
    MaxCreds = 2
INVARIANTS ReloadTakes OneOfEach RefusalIsOfThisNode
CHECK_DEADLOCK FALSE
