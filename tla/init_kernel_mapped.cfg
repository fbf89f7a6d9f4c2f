SPECIFICATION Spec
CONSTANTS
    E = 16
    RAM <- CleanTables
INVARIANTS
    KernelInEveryTask
CHECK_DEADLOCK FALSE
