SPECIFICATION Spec
CONSTANTS
    a = a
    b = b
    o1 = o1
    o2 = o2
    o3 = o3
    w1 = w1
    w2 = w2
    x1 = x1
    UI = UI
    NoId = NoId
    NoObj = NoObj
    NoTx = NoTx
    NoThread = NoThread
    Ids <- OneId
    Objs <- TwoObjs
    Txs <- MCTxs
    Workers <- MCWorkers
    ExitWhileConnecting = FALSE
INVARIANTS
    CachedInfoNeverWaits
