SPECIFICATION FairSpec
CONSTANTS
    None = None
    NetClients = {n1}
    TestClients = {t1}
    IpcClients = {}
    Workers = {w1}
    MaxFd = 4
    MaxEvents = 4
    MaxNotes = 1
    Mcts = 0
    Early = FALSE
INVARIANTS TypeOK EventsMatchSockets 
PROPERTIES LoopsServe
CHECK_DEADLOCK FALSE
