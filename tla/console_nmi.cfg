SPECIFICATION FairSpec
CONSTANTS
    BUFSZ = 4
    Length <- MCLength
    MaxTraps = 1
    MaxNMI = 1
INVARIANTS
    TypeOK
PROPERTIES
    Halts
\* The kernel ends halted
CHECK_DEADLOCK FALSE
