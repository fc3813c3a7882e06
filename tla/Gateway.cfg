SPECIFICATION Spec
CONSTANTS
    None = None
    n1 = n1
    n2 = n2
    Testers = {t1}
    Equips = {e1}
    Nodes = {n1}
    Group <- OneNode
    Targets = {n1}
    Workers = {w1}
    MaxFd = 4
    Lengths = {2}
    MaxAsked = 2
    Reliable = FALSE
INVARIANTS TypeOK MessagesWhole RoutesMatchTable AnswersGoHome OnlyKnownHalts
CHECK_DEADLOCK FALSE
