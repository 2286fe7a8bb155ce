SPECIFICATION ServiceSpec
CONSTANTS
    r1 = r1
    r2 = r2
    r3 = r3
    Requests = {r1, r2, r3}
    KeyOf <- MCKeyOf
    SessionOf <- MCSessionOf
    AppOf <- MCAppOf
    Rank <- MCRank
    BatchSize = 2
    MaxConcurrent = 3
    MaxDepth = 2
    MaxPerApp = 2
    MaxPerSession = 1
    ChannelSize = 2
    ResponseSize = 1
    MaxUpdates = 1
INVARIANTS SchedulerInv OneVersion
PROPERTIES Answered

CHECK_DEADLOCK FALSE
