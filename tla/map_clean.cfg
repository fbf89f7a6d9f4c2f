SPECIFICATION FairSpec
CONSTANTS
    E = 4
    Frame <- MCFrame
    Pgd <- MCPgd
    Base <- MCBase
    Calls <- CoveredCalls
    Images <- ZeroImages
INVARIANTS
    TypeOK
    TablesPrivate
PROPERTIES
    OthersUntouched
    CallReturns
    ImplementsAddressSpace
