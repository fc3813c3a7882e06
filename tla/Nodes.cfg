SPECIFICATION FairSpec
CONSTANTS
    None = None
    Apps = {a1, a2}
    MaxNodes = 1
    Lengths = {0, 2}
    MaxFrames = 2
    ReadMax = 6
    Replies = TRUE
    UserConf = TRUE
    Modulus = 4
INVARIANTS TypeOK MessagesIntact 
PROPERTIES DestroyReturns
CHECK_DEADLOCK FALSE
