SPECIFICATION Spec
CONSTANTS
    E = 16
    RAM <- CleanTables
INVARIANTS
    KernelKeepsRunning
    RightsAsAsked
    TasksIsolated
    OnePageShared
    OwnStacks
CHECK_DEADLOCK FALSE
