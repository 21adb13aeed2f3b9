SPECIFICATION MessagesSpec
CONSTANTS
    MaxIters = 2
    MaxRepeats = 1
    MaxChars = 2
    Budget = 1
    Sizes = {1, 2}
    MaxShots = 1
    Native = {0}
    MaxBlocks = 2
INVARIANTS WellFormed GatewayToolsStayHere CallsAreAnswered
PROPERTY EveryRequestEnds
CHECK_DEADLOCK FALSE
