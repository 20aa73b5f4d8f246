\* Two harts, every system call and every instruction class.
SPECIFICATION Spec
CONSTANTS
    MEM_SIZE = 96
    HART_SLOT_BASE = 16
    HART_SLOT_SIZE = 16
    MAX_HARTS = 4
    STACK_SIZE = 4
    NHarts = 2
    Half = 128
    Word <- MCWord
    Decode <- MCDecode
    RegInputs <- AllRegs
    Targets <- AllTargets
    Addresses <- MCAddresses
    Programs <- AllPrograms
    quantum = 2
    timerInterval = 4
    maxCycles = 12
INVARIANTS TypeOK UserModeOnly NoLostWakeup ResumesAtRecv FaultJustified
           StepBudget CallsCounted StarvationBound
PROPERTIES StoppedForGood OthersUntouched InterruptsKept ImplementsGuest
