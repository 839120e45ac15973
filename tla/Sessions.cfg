SPECIFICATION SessionsSpec
CONSTANTS
    a = a
    b = b
    o1 = o1
    o2 = o2
    o3 = o3
    w1 = w1
    w2 = w2
    r1 = r1
    r2 = r2
    x1 = x1
    x2 = x2
    UI = UI
    NoId = NoId
    NoObj = NoObj
    NoTx = NoTx
    NoThread = NoThread
    NoRunner = NoRunner
    Ids <- MCIds
    Objs <- MCObjs
    Txs <- MCTxs
    Workers <- MCWorkers
    Runners <- MCRunners
    MaxStatements = 1
    ExitWhileConnecting = FALSE
    Gated = FALSE
    MaxOpenTxs = 1
    Profiles <- MCIds
    MaxConnects = 1
CONSTRAINT StatementsOnly
SYMMETRY Interchangeable
INVARIANTS
    TypeOK
    ActiveIsRegistered
    SomeSessionActive
    NoHandleLeak
    NoCatalogLeak
    NoOrphanTransaction
    CancelReachesStatement
PROPERTIES
    ClosedSessionOpensNoCatalog
    RunsInTransaction
