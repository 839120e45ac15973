SPECIFICATION DesktopSpec
CONSTANTS
    j1 = j1
    j2 = j2
    q1 = q1
    c1 = c1
    t1 = t1
    t2 = t2
    p1 = p1
    p2 = p2
    NoQuery = NoQuery
    NoTable = NoTable
    Slots <- MCSlots
    Queries <- MCQueries
    Commands <- MCCommands
    Tables <- MCTables
    MaxDetails = 2
    MaxKept = 2
    QueueSize = 2
    MaxRecords = 6
    MaxFaults = 2
    Ids <- MCIds
    Legacy = p1
    NoId = NoId
    MaxMishaps = 1
    MaxRuns = 2
INVARIANTS
    UITypeOK
    QuiescentIsFresh
    HistTypeOK
    NoEnqueueAfterClose
    FileInOrder
    ExitFlushes
    FaultCostsLittle
    FileBounded
    ProfilesSurvive
    RefsResolve
PROPERTIES
    DetailsAreOfLatest
    ExecutingEnds
    NothingVanishes
    CloseEnds
