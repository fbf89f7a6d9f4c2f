SPECIFICATION Spec
CONSTANTS
    E = 16
    RAM <- StaleTables
INVARIANTS
    OnePageShared
CHECK_DEADLOCK FALSE
