SPECIFICATION Spec
CONSTANTS
    E = 4
    Frame <- MCFrame
    Pgd <- MCPgd
    Base <- MCBase
    Calls <- CoveredCalls
    Images <- StaleImages
INVARIANTS
    RequestServed
