SPECIFICATION Spec
CONSTANTS
    E = 4
    Frame <- MCFrame
    Pgd <- MCPgd
    Base <- MCBase
    Calls <- CrossingCalls
    Images <- ZeroImages
INVARIANTS
    PagesCounted
