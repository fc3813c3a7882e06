SPECIFICATION FairSpec
CONSTANTS
    None = None
    n1 = n1
    n2 = n2
    Testers = {t1}
    Equips = {}
    Nodes = {n1, n2}
    Group <- TwoNodes
    Targets = {n1, "group"}
    Workers = {w1}
    MaxFd = 4
    Lengths = {3}
    MaxAsked = 2
    Reliable = TRUE
PROPERTIES QueueDrains
CHECK_DEADLOCK FALSE
