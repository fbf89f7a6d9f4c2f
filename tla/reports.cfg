SPECIFICATION ReportsSpec
CONSTANTS
    ro = ro
    rw = rw
    E = 4
    Attr = {ro, rw}
    Directories <- MCDirs
    Tables <- OneTable
    LOW = 4
    MID = 2
    HIGH = 2
    LIM = 2
    PAGE = 2
    Gdts <- MCGdts
    FOUR_GB = 8
    Maps <- MCMaps
    Reserved = 5
    Ram = {0}
    Dword = {0, 7}
    Below = 2
    Stack = 9
    MaxDepth = 3
    MaxLines = 6
    Boots <- MCBoots
    PrintfCalls <- MCCalls
    WIDTH = 8
    DECSZ = 3
INVARIANTS
    ReportExact
    BlocksMaximal
    LinesExact
    MapListed
    CallersFirst
    ArgumentsInStep
    NumeralExact
PROPERTIES
    ReportsEnd
\* A report ends
CHECK_DEADLOCK FALSE
