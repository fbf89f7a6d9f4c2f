SPECIFICATION SetupSpec
CONSTANTS
    Addr <- MCAddr
    Byte <- MCByte
    Boots <- MCBoots
    Top = 11
    idt_trampoline <- FirstTrampoline
    Installs <- Handlers
    Irqs = {0, 9}
    Programs = {"tp1", "tp3", "tp5", "exam"}
    MaxNMI = 2
    FcrJunk <- AnyJunk
    FifoDepth = 2
    MaxBytes = 4
    MaxRead = 2
    E = 16
    MaxWrites = 2
INVARIANTS
    StoresExact
    Searched
    ControllersReady
    EventsLead
    SegmentsUsable
    LineSetUp
    ReadOnce
    TablesReached
    FieldsHold
PROPERTIES
    Restored
\* A call returns, a program ends
CHECK_DEADLOCK FALSE
