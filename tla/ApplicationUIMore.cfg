SPECIFICATION UISpec
CONSTANTS
    j1 = j1
    j2 = j2
    q1 = q1
    q2 = q2
    c1 = c1
    t1 = t1
    t2 = t2
    NoQuery = NoQuery
    NoTable = NoTable
    Slots <- MCSlots
    Queries <- MCQueries
    Commands <- MCCommands
    Tables <- MCTables
    MaxDetails = 2
INVARIANTS
    LoadMoreRerunsTheQuery
