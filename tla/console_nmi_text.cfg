SPECIFICATION FairSpec
CONSTANTS
    BUFSZ = 4
    Length <- MCLength
    MaxTraps = 2
    MaxNMI = 1
INVARIANTS
    TextIntact
\* The kernel ends halted
CHECK_DEADLOCK FALSE
