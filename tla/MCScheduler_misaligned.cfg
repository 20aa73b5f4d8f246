\* Jumps off a word boundary.
SPECIFICATION Spec
CONSTANTS
    MEM_SIZE = 96
    HART_SLOT_BASE = 16
    HART_SLOT_SIZE = 16
    MAX_HARTS = 4
    STACK_SIZE = 4
    NHarts = 1
    Half = 128
    Word <- MCWord
    Decode <- MCDecode
    RegInputs <- AllRegs
    Targets <- AllTargets
    Addresses <- MCAddresses
    Programs <- AllPrograms
    quantum = 2
    timerInterval = 5
    maxCycles = 12
INVARIANTS FetchesAligned
