\* Three harts that send and receive.
SPECIFICATION FairSpec
CONSTANTS
    MEM_SIZE = 96
    HART_SLOT_BASE = 16
    HART_SLOT_SIZE = 16
    MAX_HARTS = 4
    STACK_SIZE = 4
    NHarts = 3
    Half = 128
    Word <- MCWord
    Decode <- MCDecode
    RegInputs <- IpcRegs
    Targets <- MCTargets
    Addresses <- MCAddresses
    Programs <- IpcPrograms
    quantum = 2
    timerInterval = 7
    maxCycles = 12
INVARIANTS NoLostWakeup
PROPERTIES ImplementsGuest FinishesOrStalls
