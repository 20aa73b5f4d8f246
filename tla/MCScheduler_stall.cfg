\* All harts blocked: does run() return?
SPECIFICATION FairSpec
CONSTANTS
    MEM_SIZE = 96
    HART_SLOT_BASE = 16
    HART_SLOT_SIZE = 16
    MAX_HARTS = 4
    STACK_SIZE = 4
    NHarts = 2
    Half = 128
    Word <- MCWord
    Decode <- MCDecode
    RegInputs <- IpcRegs
    Targets <- MCTargets
    Addresses <- MCAddresses
    Programs <- IpcPrograms
    quantum = 2
    timerInterval = 5
    maxCycles = 9
PROPERTIES StallEndsRun
