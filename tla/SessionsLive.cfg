SPECIFICATION FairSessionsSpec
CONSTANTS
    a = a
    b = b
    o1 = o1
    o2 = o2
    o3 = o3
    w1 = w1
    w2 = w2
    r1 = r1
    r2 = r2
    x1 = x1
    x2 = x2
    UI = UI
    NoId = NoId
    NoObj = NoObj
    NoTx = NoTx
    NoThread = NoThread
    NoRunner = NoRunner
    Ids <- MCIds
    Objs <- TwoObjs
    Txs <- OneTx
    Workers <- OneWorker
    Runners <- OneRunner
    MaxStatements = 2
    ExitWhileConnecting = FALSE
    Gated = TRUE
    MaxOpenTxs = 1
    Profiles <- OneProfile
    MaxConnects = 2
PROPERTIES
    DisconnectReturns
    ExitCompletes
    RunEnds
