SPECIFICATION MainWindowSpec
CONSTANTS
    a = a
    b = b
    o1 = o1
    o2 = o2
    w1 = w1
    r1 = r1
    x1 = x1
    UI = UI
    NoId = NoId
    NoObj = NoObj
    NoTx = NoTx
    NoThread = NoThread
    NoRunner = NoRunner
    Ids <- MCIds
    Objs <- MCObjs
    Txs <- MCTxs
    Workers <- MCWorkers
    Runners <- MCRunners
    MaxStatements = 2
    ExitWhileConnecting = FALSE
    Gated = TRUE
    Alphabets <- MCAlphabets
    MaxChars = 4
    NoText = NoText
    Results <- MCResults
    CharCode <- MCCharCode
    MaxColWidth = 3
    s1 = s1
    s2 = s2
    t1 = t1
    g1 = g1
    NoSnap = NoSnap
    NoTable = NoTable
    UIThread = UIThread
    NoOwner = NoOwner
    NoCols = NoCols
    NoSession = NoSession
    Sessions <- MCSessions
    Tables <- OneTable
    NameHits <- NoHits
    Jobs <- OneJob
    Tree = Tree
    MaxEvents = 1
    f1 = f1
    f2 = f2
    tab1 = tab1
    tab2 = tab2
    tab3 = tab3
    NoPage = NoPage
    NoPath = NoPath
    Pages <- MCPages
    Paths <- MCPaths
    MaxTabFaults = 1
    MaxRestored = 2
SYMMETRY Interchangeable
INVARIANTS
    ExecTypeOK
    CancelStopsScript
    NoStuckExecuting
    StatementsStandAlone
    ReadersAgree
    ExportsReadBack
    CacheIsOwn
    RefreshIsHonoured
PROPERTIES
    ImplementsContract
    SelectionIsExact
    SortKeepsRows
    CachedMapsFrozen
    AskedBeforeLoss
    RestoredAsLeft
