SPECIFICATION FairSpec
CONSTANTS
    Irqs <- MCIrqs
    Vectors <- MCVectors
    IntVectors <- MCIntVectors
    Gpr = {1}
    MaxRaise = 3
    MaxNMI = 1
INVARIANTS
    TypeOK
    HandlerContext
    LinesEnded
PROPERTIES
    ContextRestored
    EoiExact
    LineServed
\* A panic stops the kernel
CHECK_DEADLOCK FALSE
