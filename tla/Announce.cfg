SPECIFICATION FairSpec
CONSTANTS
    None = None
    NumIfs = 1
    Testers = {r1}
    MaxId = 3
    MaxNodes = 1
    MaxCalls = 2
    MaxAsks = 1
INVARIANTS TypeOK ThriceUnlessMixed
PROPERTIES IdentifyAnswered NewsIsTold
CHECK_DEADLOCK FALSE
