SPECIFICATION TabSpec
CONSTANTS
    f1 = f1
    f2 = f2
    tab1 = tab1
    tab2 = tab2
    NoPage = NoPage
    NoPath = NoPath
    Pages <- MCPages
    Paths <- MCPaths
    MaxTabFaults = 0
    MaxRestored = 1
PROPERTIES
    ClosedIsNotReopened
