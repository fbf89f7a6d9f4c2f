SPECIFICATION FairSpec
CONSTANTS
    BUFSZ = 4
    Length <- MCLength
    MaxTraps = 2
    MaxNMI = 0
INVARIANTS
    LastWords
    TextIntact
PROPERTIES
    ImplementsLog
\* The kernel ends halted
CHECK_DEADLOCK FALSE
