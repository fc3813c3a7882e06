SPECIFICATION FairSpec
CONSTANTS
    None = None
    NumIfs = 1
    Testers = {r1}
    MaxId = 3
    MaxNodes = 1
    MaxCalls = 2
    MaxAsks = 1
PROPERTIES CallReturns
CHECK_DEADLOCK FALSE
